---------------------------- MODULE Spec2Model ----------------------------
(***************************************************************************)
(* The sales dashboard's reshape-and-aggregate pipeline: the row           *)
(* classifier, the cell and month-label parsers, the four report loaders   *)
(* (customer type, customer, vendor, item), the aggregations and the Top-N *)
(* selection that the pages derive from the loaded Dataset.                *)
(*                                                                         *)
(* A Python string is a sequence of one-character strings, so that strip,  *)
(* lower, upper, title, slicing, startswith and substring search are       *)
(* computed character by character as the code computes them.  Amounts are *)
(* whole numbers.  A cell of a pandas frame is a number, NaN or text.      *)
(***************************************************************************)
EXTENDS Integers, Sequences, FiniteSets, TLC

VARIABLES
    fn,     \* helper run: which helper is applied ("classify", "month3", "money")
    arg,    \* helper run: the argument handed to the helper
    out,    \* helper run: the value returned, Pending before the call
    page,   \* loader run: the report page whose loader runs
    paths,  \* loader run: the years of the paths dict, in iteration order
    files,  \* loader run: the contents of the file of each path, in the same order
    dfs,    \* loader run: the per-year long frames appended so far
    data,   \* the Dataset: the concatenated long records
    pc,     \* position of the run
    ctl,    \* page run: the sidebar controls
    view,   \* page run: the tables derived for the charts
    cache,  \* session: the results st.cache_data holds, by the arguments of the call
    sorts,  \* session: the rankings sort_values has returned, by the table sorted
    last,   \* session: the controls, Dataset and tables of the previous run
    runs,   \* session: how many times the script has been started
    groupby_observed  \* session: the installed pandas' groupby default for observed

vars == <<fn, arg, out, page, paths, files, dfs, data, pc, ctl, view,
          cache, sorts, last, runs, groupby_observed>>

fnVars   == <<fn, arg, out>>
loadVars == <<page, paths, files, dfs>>
pageVars == <<ctl, view>>
sessVars == <<cache, sorts, last, runs, groupby_observed>>

-----------------------------------------------------------------------------
(* Bounds of the model *)

\* longest cell string handed to _clean_money
MaxLen == 3

-----------------------------------------------------------------------------
(* Python values and string primitives *)

\* None and the not-yet-returned marker are one-element sequences whose element is no
\* character, so that they differ from every string
None    == <<"None">>
Pending == <<"Pending">>

\* a pandas cell: a number, NaN (a blank cell, or a label outside the categories), or
\* text that read_csv left as a string
Num(n)  == [num |-> n]
NaN     == [nan |-> TRUE]
Text(s) == [text |-> s]
IsNum(c)  == DOMAIN c = {"num"}
IsNaN(c)  == DOMAIN c = {"nan"}
IsText(c) == DOMAIN c = {"text"}

\* the em dash of _clean_money's blank set, one character
EmDash == "EM-DASH"

UpperLetters == <<"A","B","C","D","E","F","G","H","I","J","K","L","M",
                  "N","O","P","Q","R","S","T","U","V","W","X","Y","Z">>
LowerLetters == <<"a","b","c","d","e","f","g","h","i","j","k","l","m",
                  "n","o","p","q","r","s","t","u","v","w","x","y","z">>
Letters == DOMAIN UpperLetters

IsUpper(c) == \E i \in Letters : UpperLetters[i] = c
IsLower(c) == \E i \in Letters : LowerLetters[i] = c
IsCased(c) == IsUpper(c) \/ IsLower(c)

lower_char(c) ==
    IF IsUpper(c) THEN LowerLetters[CHOOSE i \in Letters : UpperLetters[i] = c] ELSE c
upper_char(c) ==
    IF IsLower(c) THEN UpperLetters[CHOOSE i \in Letters : LowerLetters[i] = c] ELSE c

Whitespace == {" ", "\t"}

\* str.lower(), str.upper()
lower(s) == [i \in 1..Len(s) |-> lower_char(s[i])]
upper(s) == [i \in 1..Len(s) |-> upper_char(s[i])]

\* str.title(): a cased character is upper-cased when it starts a word (follows an
\* uncased character or nothing) and lower-cased otherwise
title(s) ==
    [i \in 1..Len(s) |->
        IF i > 1 /\ IsCased(s[i-1]) THEN lower_char(s[i]) ELSE upper_char(s[i])]

\* str.strip()
strip(s) ==
    LET keep == {i \in 1..Len(s) : s[i] \notin Whitespace}
    IN  IF keep = {} THEN <<>>
        ELSE SubSeq(s, CHOOSE i \in keep : \A j \in keep : i <= j,
                       CHOOSE i \in keep : \A j \in keep : i >= j)

\* s[:n]
prefix(s, n) == SubSeq(s, 1, IF Len(s) < n THEN Len(s) ELSE n)

\* s.startswith(p)
startswith(s, p) == Len(p) <= Len(s) /\ SubSeq(s, 1, Len(p)) = p

\* p in s
contains(s, p) ==
    \E i \in 1..(Len(s) - Len(p) + 1) : SubSeq(s, i, i + Len(p) - 1) = p

\* s.replace(c, r) for a one-character pattern c
RECURSIVE replace(_, _, _)
replace(s, c, r) ==
    IF s = <<>> THEN <<>>
    ELSE (IF Head(s) = c THEN r ELSE <<Head(s)>>) \o replace(Tail(s), c, r)

\* str(x)
py_str(x) == IF x = None THEN <<"N","o","n","e">> ELSE x

Digits == <<"0","1","2","3","4","5","6","7","8","9">>
IsDigit(c) == \E i \in DOMAIN Digits : Digits[i] = c
digit_val(c) == (CHOOSE i \in DOMAIN Digits : Digits[i] = c) - 1

RECURSIVE digits_val(_)
digits_val(s) ==
    IF s = <<>> THEN 0
    ELSE digits_val(SubSeq(s, 1, Len(s) - 1)) * 10 + digit_val(s[Len(s)])

\* float(s) on strings of whole numbers: surrounding whitespace is ignored, one
\* leading sign is accepted, then at least one digit and nothing else; every other
\* string raises ValueError
py_float(s) ==
    LET t    == strip(s)
        sign == t # <<>> /\ Head(t) \in {"-", "+"}
        body == IF sign THEN Tail(t) ELSE t
    IN  IF body # <<>> /\ \A i \in 1..Len(body) : IsDigit(body[i])
        THEN [ok |-> TRUE,
              val |-> IF Head(t) = "-" THEN 0 - digits_val(body) ELSE digits_val(body)]
        ELSE [ok |-> FALSE, val |-> 0]

-----------------------------------------------------------------------------
(* Module constants of the pages *)

Jan == <<"J","a","n">>
Feb == <<"F","e","b">>
Mar == <<"M","a","r">>
Apr == <<"A","p","r">>
May == <<"M","a","y">>
Jun == <<"J","u","n">>
Jul == <<"J","u","l">>
Aug == <<"A","u","g">>
Sep == <<"S","e","p">>
Oct == <<"O","c","t">>
Nov == <<"N","o","v">>
Dec == <<"D","e","c">>

MONTH_ORDER == <<Jan, Feb, Mar, Apr, May, Jun, Jul, Aug, Sep, Oct, Nov, Dec>>
Months == {MONTH_ORDER[i] : i \in DOMAIN MONTH_ORDER}

YEAR_ORDER == <<"2023", "2024", "2025">>

GROUP_HEADERS_EXACT ==
    { <<"u","n","c","a","t","e","g","o","r","i","z","e","d">>,
      <<"i","n","v","e","n","t","o","r","y">>,
      <<"p","a","r","t","s">>,
      <<"o","t","h","e","r"," ","c","h","a","r","g","e","s">> }

HEADER_ECHO ==
    { <<"i","t","e","m","s">>, <<"i","t","e","m">>, <<"n","a","m","e">>,
      <<"d","e","s","c","r","i","p","t","i","o","n">> }

-----------------------------------------------------------------------------
(* Row classifier, cell parser, month normaliser (Sales_By_Item.py) *)

\* the classifier without the lower-casing of line 41 (a variant the classifier
\* properties must tell apart from the code)
is_group_or_total_row_nolower(label) ==
    LET s   == strip(py_str(IF label \in {None, <<>>} THEN <<>> ELSE label))
        low == s
    IN  \/ s = <<>>
        \/ low \in GROUP_HEADERS_EXACT
        \/ low = <<"t","o","t","a","l">> \/ low = <<"g","r","a","n","d"," ","t","o","t","a","l">>
        \/ startswith(low, <<"t","o","t","a","l"," ">>)
        \/ contains(low, <<"s","u","b","t","o","t","a","l">>)
        \/ low \in HEADER_ECHO

\* is_group_or_total_row(label)
is_group_or_total_row(label) ==
    LET s   == strip(py_str(IF label \in {None, <<>>} THEN <<>> ELSE label))
        low == lower(s)
    IN  \/ s = <<>>
        \/ low \in GROUP_HEADERS_EXACT
        \/ low = <<"t","o","t","a","l">> \/ low = <<"g","r","a","n","d"," ","t","o","t","a","l">>
        \/ startswith(low, <<"t","o","t","a","l"," ">>)
        \/ contains(low, <<"s","u","b","t","o","t","a","l">>)
        \/ low \in HEADER_ECHO

\* _clean_money with "(" dropped instead of turned into a minus sign (a variant the
\* cell-parser properties must tell apart from the code)
clean_money_drop_paren(x) ==
    IF x = None THEN 0
    ELSE LET s == strip(py_str(x))
         IN  IF s \in {<<>>, <<"-">>, <<EmDash>>} THEN 0
             ELSE LET t == replace(replace(replace(replace(s, "$", <<>>), ",", <<>>),
                                           "(", <<>>), ")", <<>>)
                  IN  IF py_float(t).ok THEN py_float(t).val ELSE 0

\* _clean_money(x)
clean_money(x) ==
    IF x = None THEN 0
    ELSE LET s == strip(py_str(x))
         IN  IF s \in {<<>>, <<"-">>, <<EmDash>>} THEN 0
             ELSE LET t == replace(replace(replace(replace(s, "$", <<>>), ",", <<>>),
                                           "(", <<"-">>), ")", <<>>)
                  IN  IF py_float(t).ok THEN py_float(t).val ELSE 0

\* _month3 without .title() (a variant the month properties must tell apart from
\* the code)
month3_notitle(x) ==
    LET s == strip(py_str(x))
        m == prefix(s, 3)
    IN  IF m \in Months THEN m ELSE <<>>

\* _month3(x)
month3(x) ==
    LET s == strip(py_str(x))
        m == title(prefix(s, 3))
    IN  IF m \in Months THEN m ELSE <<>>

-----------------------------------------------------------------------------
(* pandas and csv primitives used by the loaders *)

Max(S) == CHOOSE x \in S : \A y \in S : y <= x

RECURSIVE Flatten(_)
Flatten(ss) == IF ss = <<>> THEN <<>> ELSE Head(ss) \o Flatten(Tail(ss))

RECURSIVE SumSeq(_)
SumSeq(s) == IF s = <<>> THEN 0 ELSE Head(s) + SumSeq(Tail(s))

\* the indexes 1..n in increasing order: the rows or columns of a frame, from which
\* a boolean mask or a list comprehension selects
Indexes(n) == [i \in 1..n |-> i]

\* str(n) of a whole number n >= 0
RECURSIVE int_str(_)
int_str(n) ==
    IF n < 10 THEN <<Digits[n + 1]>> ELSE int_str(n \div 10) \o <<Digits[(n % 10) + 1]>>

\* a label or month value that is missing: NaN in a column of strings
NaNLabel == <<"NaN">>

\* pd.read_csv(path): a file is [header, rows] of cell strings, every row as long as
\* the header.  A column whose non-blank cells all read as numbers becomes numeric;
\* otherwise its non-blank cells stay text.  A blank cell is NaN in both.
read_csv(raw) ==
    LET n == Len(raw.rows)
        numeric == [j \in 1..Len(raw.header) |->
                       \A i \in 1..n : raw.rows[i][j] = <<>> \/ py_float(raw.rows[i][j]).ok]
        cell(i, j) ==
            LET s == raw.rows[i][j]
            IN  IF s = <<>> THEN NaN
                ELSE IF numeric[j] THEN Num(py_float(s).val) ELSE Text(s)
    IN  [columns |-> raw.header,
         rows    |-> [i \in 1..n |-> [j \in 1..Len(raw.header) |-> cell(i, j)]]]

\* Series.astype(str) on one value of column j of a frame
astype_str(df, j, c) ==
    IF IsNaN(c) THEN <<"n","a","n">>
    ELSE IF IsText(c) THEN c.text
    ELSE IF \E i \in 1..Len(df.rows) : IsNaN(df.rows[i][j])
         THEN int_str(c.num) \o <<".","0">>
         ELSE int_str(c.num)

\* pd.to_numeric(errors="coerce").fillna(0) on one value
to_numeric_fillna0(c) ==
    IF IsNum(c) THEN c
    ELSE IF IsText(c) /\ py_float(c.text).ok THEN Num(py_float(c.text).val)
    ELSE Num(0)

\* astype(str).str[:3] followed by pd.Categorical(categories=MONTH_ORDER): a label
\* outside the categories becomes NaN
month_categorical(label) ==
    LET m == prefix(label, 3) IN IF m \in Months THEN m ELSE NaNLabel

\* df.melt(id_vars=<first column>, value_vars=cols): one record per value column and
\* row, column by column; the result lists the <<row, column>> cells in that order
melt(rowidx, cols) ==
    Flatten([k \in 1..Len(cols) |-> [r \in 1..Len(rowidx) |-> <<rowidx[r], cols[k]>>]])

-----------------------------------------------------------------------------
(* Customer-type loader (afc_sales_dashboard/app.py, the load loop) *)

T_CustomerType == <<"C","u","s","t","o","m","e","r","T","y","p","e">>
T_Customer     == <<"C","u","s","t","o","m","e","r">>
T_Vendor       == <<"V","e","n","d","o","r">>
T_TOTAL        == <<"T","O","T","A","L">>
T_Total        == <<"T","o","t","a","l">>
T_total        == <<"t","o","t","a","l">>

\* the TOTAL-row test without .str.upper() (a variant the reshape properties must
\* tell apart from the code)
is_total_label_exact(s) == s = T_TOTAL

\* df[col].astype(str).str.upper() != "TOTAL" keeps the rows for which this is false
is_total_label(s) == upper(s) = T_TOTAL

\* the label of a frame row as the entity of its records: the column is not
\* converted, so a blank label stays NaN
raw_entity(df, c) == IF IsNaN(c) THEN NaNLabel ELSE astype_str(df, 1, c)

\* one iteration of the loop: read, rename, drop TOTAL, melt, tag
load_type_file(raw, year_str) ==
    LET df   == read_csv(raw)
        cols == [j \in 1..Len(df.columns) |-> IF j = 1 THEN T_CustomerType ELSE df.columns[j]]
        keep == SelectSeq(Indexes(Len(df.rows)),
                          LAMBDA i : ~is_total_label(astype_str(df, 1, df.rows[i][1])))
        month_cols == SelectSeq(Indexes(Len(cols)),
                                LAMBDA j : cols[j] \notin {T_CustomerType, T_TOTAL})
        cells == melt(keep, month_cols)
    IN  [n \in DOMAIN cells |->
            [entity  |-> raw_entity(df, df.rows[cells[n][1]][1]),
             month   |-> month_categorical(cols[cells[n][2]]),
             measure |-> df.rows[cells[n][1]][cells[n][2]],
             year    |-> year_str,
             row     |-> cells[n][1],
             col     |-> cells[n][2]]]

-----------------------------------------------------------------------------
(* Vendor loader (pages/purchase_orders.py, load_purchases_long) *)

\* one iteration of the loop
load_purchases_file(raw, year) ==
    LET df   == read_csv(raw)
        cols == [j \in 1..Len(df.columns) |-> IF j = 1 THEN T_Vendor ELSE df.columns[j]]
        keep == SelectSeq(Indexes(Len(df.rows)),
                          LAMBDA i : ~is_total_label(astype_str(df, 1, df.rows[i][1])))
        month_cols == SelectSeq(Indexes(Len(cols)),
                                LAMBDA j : cols[j] \notin {T_Vendor, T_TOTAL, T_Total, T_total})
        cells == melt(keep, month_cols)
    IN  [n \in DOMAIN cells |->
            [entity  |-> strip(astype_str(df, 1, df.rows[cells[n][1]][1])),
             month   |-> month_categorical(cols[cells[n][2]]),
             measure |-> to_numeric_fillna0(df.rows[cells[n][1]][cells[n][2]]),
             year    |-> year,
             row     |-> cells[n][1],
             col     |-> cells[n][2]]]

\* data = data[data["Vendor"] != ""]  (and the same line of the customer loader)
drop_blank_entity(recs) == SelectSeq(recs, LAMBDA r : r.entity # <<>>)

-----------------------------------------------------------------------------
(* Customer loader (pages/Sales_By_Customer.py, load_customer_sales_long) *)

CHLA == <<"C","h","i","l","d","r","e","n","s"," ","H","o","s","p","i","t","a","l"," ","o","f"," ","L","o","s"," ","A","n","g","e","l","e","s">>

CHLA_ALIASES ==
    { <<<<"0","0","0","0","5","8","7","4","2","8">>, CHLA>>,
      <<<<"0","0","0","0","6","8","3","5","6","7">>, CHLA>>,
      <<<<"0","0","0","0","6","8","3","5","6","9">>, CHLA>>,
      <<<<"C","h","i","l","d","r","e","n","s"," ","H","o","s","p","i","t","a","l"," ","o","f"," ","L","o","s"," ","A","n","g","e","l","e","s"," ","-"," ","O","t","h","e","r">>, CHLA>>,
      <<<<"T","o","t","a","l"," ","C","h","i","l","d","r","e","n","s"," ","H","o","s","p","i","t","a","l"," ","o","f"," ","L","o","s"," ","A","n","g","e","l","e","s">>, CHLA>> }

\* Series.replace(CHLA_ALIASES): a value equal to a key is replaced by its target
replace_aliases(s) ==
    IF \E a \in CHLA_ALIASES : a[1] = s
    THEN (CHOOSE a \in CHLA_ALIASES : a[1] = s)[2]
    ELSE s

\* the normalised Customer column: astype(str), strip, alias replacement
customer_name(df, c) == replace_aliases(strip(astype_str(df, 1, c)))

\* the column whose lower-cased name is key, as cols_lower finds it (the last such
\* column wins in the dict), 0 when there is none
col_lower(cols, key) ==
    LET hit == {j \in 1..Len(cols) : lower(cols[j]) = key}
    IN  IF hit = {} THEN 0 ELSE Max(hit)

\* one iteration of the loop
load_customer_file(raw, year) ==
    LET df   == read_csv(raw)
        cols == [j \in 1..Len(df.columns) |-> IF j = 1 THEN T_Customer ELSE df.columns[j]]
        keep == SelectSeq(Indexes(Len(df.rows)),
                          LAMBDA i : ~is_total_label(customer_name(df, df.rows[i][1])))
        name(i)   == strip(customer_name(df, df.rows[i][1]))
        month_col == col_lower(cols, <<"m","o","n","t","h">>)
        val_col   == IF col_lower(cols, <<"s","a","l","e","s">>) # 0 THEN col_lower(cols, <<"s","a","l","e","s">>)
                     ELSE col_lower(cols, <<"a","m","o","u","n","t">>)
        month_cols == SelectSeq(Indexes(Len(cols)),
                                LAMBDA j : cols[j] \notin {T_Customer, T_TOTAL, T_Total, T_total})
        cells == melt(keep, month_cols)
    IN  IF month_col # 0 /\ val_col # 0
        THEN [r \in 1..Len(keep) |->
                 [entity  |-> name(keep[r]),
                  month   |-> month_categorical(
                                  astype_str(df, month_col, df.rows[keep[r]][month_col])),
                  measure |-> to_numeric_fillna0(df.rows[keep[r]][val_col]),
                  year    |-> year,
                  row     |-> keep[r],
                  col     |-> val_col]]
        ELSE [n \in DOMAIN cells |->
                 [entity  |-> name(cells[n][1]),
                  month   |-> month_categorical(cols[cells[n][2]]),
                  measure |-> to_numeric_fillna0(df.rows[cells[n][1]][cells[n][2]]),
                  year    |-> year,
                  row     |-> cells[n][1],
                  col     |-> cells[n][2]]]
-----------------------------------------------------------------------------
(* Item parser (pages/Sales_By_Item.py, parse_qb_sales_by_item_summary) *)

\* A file is the list of rows csv.reader returns, each row a list of cell strings.
\* Column indexes are the code's, counted from 0: cell c of row r is r[c + 1].

is_qty(s) == contains(lower(py_str(s)), <<"q","t","y">>)
is_amt(s) == contains(lower(py_str(s)), <<"a","m","o","u","n","t">>) \/ contains(lower(py_str(s)), <<"t","o","t","a","l">>)

\* a variant of col_month that carries the month forward in every layout (the
\* assignment property must tell it apart from the code)
col_month_carry_forward(header_month, header_metric) ==
    LET month_len == Len(header_month)
        seen(c)   == {k \in 1..c : k < month_len /\ month3(header_month[k + 1]) # <<>>}
    IN  [c \in 1..(Len(header_metric) - 1) |->
            IF seen(c) = {} THEN <<>> ELSE month3(header_month[Max(seen(c)) + 1])]

\* col_month: metric column -> month label ("" when none), by 4-column blocks when
\* the metric row has 1 + 4 * (month cells - 1) columns, by carry-forward otherwise
col_month(header_month, header_metric) ==
    LET metric_len == Len(header_metric)
        month_len  == Len(header_month)
        m3         == [k \in 1..month_len |-> month3(header_month[k])]
        seen(c)    == {k \in 1..c : k < month_len /\ m3[k + 1] # <<>>}
    IN  IF metric_len = 1 + (month_len - 1) * 4
        THEN [c \in 1..(metric_len - 1) |-> m3[((c - 1) \div 4) + 2]]
        ELSE [c \in 1..(metric_len - 1) |->
                 IF seen(c) = {} THEN <<>> ELSE m3[Max(seen(c)) + 1]]

\* qty_col[m]: the metric columns of month m whose name has "qty"; the dict keeps the
\* last one
qty_col(cm, header_metric, m) ==
    {c \in DOMAIN cm : cm[c] = m /\ is_qty(header_metric[c + 1])}

\* amt_col[m]: the metric columns of month m whose name has "amount" or "total" and
\* not "qty"; the dict keeps the last one
amt_col(cm, header_metric, m) ==
    {c \in DOMAIN cm : cm[c] = m /\ ~is_qty(header_metric[c + 1])
                                     /\ is_amt(header_metric[c + 1])}

\* _clean_money(r[c]) if c is not None and c < len(r) else 0.0, for the columns S
\* assigned to qty_col[m] or amt_col[m]
cell_value(r, S) ==
    IF S # {} /\ Max(S) < Len(r) THEN clean_money(r[Max(S) + 1]) ELSE 0

\* the row filter of the record loop: an empty row, a grouping or total label
item_row_kept(r) ==
    /\ r # <<>>
    /\ ~is_group_or_total_row(strip(r[1]))
    /\ upper(strip(r[1])) # T_TOTAL

\* the records of data row n, month by month; qc and ac are qty_col and amt_col by
\* month index.  row is the data row a record was read from, which the code does not
\* keep
item_row_records(qc, ac, r, year, n) ==
    LET qty  == [i \in DOMAIN MONTH_ORDER |-> cell_value(r, qc[i])]
        amt  == [i \in DOMAIN MONTH_ORDER |-> cell_value(r, ac[i])]
        emit == SelectSeq(Indexes(Len(MONTH_ORDER)), LAMBDA i : qty[i] # 0 \/ amt[i] # 0)
    IN  [k \in 1..Len(emit) |->
            [entity  |-> strip(r[1]),
             year    |-> year,
             month   |-> MONTH_ORDER[emit[k]],
             qty     |-> Num(qty[emit[k]]),
             measure |-> Num(amt[emit[k]]),
             row     |-> n]]

month_index(m) == CHOOSE i \in DOMAIN MONTH_ORDER : MONTH_ORDER[i] = m

\* the order of sort_values(["Year", "Month", "Amount"], ascending=[True, True, False])
\* within one year
sorts_before(a, b) ==
    \/ month_index(a.month) < month_index(b.month)
    \/ month_index(a.month) = month_index(b.month) /\ a.measure.num > b.measure.num

RECURSIVE insert_sorted(_, _)
insert_sorted(s, r) ==
    IF s = <<>> THEN <<r>>
    ELSE IF sorts_before(r, Head(s)) THEN <<r>> \o s
    ELSE <<Head(s)>> \o insert_sorted(Tail(s), r)

\* df.sort_values(...): a stable sort, rows with equal keys keep their order
RECURSIVE sort_values(_)
sort_values(recs) ==
    IF recs = <<>> THEN <<>>
    ELSE insert_sorted(sort_values(SubSeq(recs, 1, Len(recs) - 1)), recs[Len(recs)])

\* the records of the file before the final sort
item_records(rows, year) ==
    LET cm   == col_month(rows[1], rows[2])
        qc   == [i \in DOMAIN MONTH_ORDER |-> qty_col(cm, rows[2], MONTH_ORDER[i])]
        ac   == [i \in DOMAIN MONTH_ORDER |-> amt_col(cm, rows[2], MONTH_ORDER[i])]
        kept == SelectSeq(Indexes(Len(rows)), LAMBDA i : i > 2 /\ item_row_kept(rows[i]))
    IN  Flatten([k \in 1..Len(kept) |-> item_row_records(qc, ac, rows[kept[k]], year, kept[k] - 2)])

\* parse_qb_sales_by_item_summary(path, year): stop is the st.error / st.stop() exit
parse_qb_sales_by_item_summary(rows, year) ==
    IF Len(rows) < 3
    THEN [stop |-> TRUE, df |-> <<>>]
    ELSE [stop |-> FALSE, df |-> sort_values(item_records(rows, year))]

-----------------------------------------------------------------------------
(* Decoding the bytes of a file.  A cell of a file holds its bytes: an ASCII byte
   is written as its character, a byte from 0x80 up as xHH.  A decoded character
   outside ASCII is written as its code point, U+HHHH. *)

\* the bytes from 0x80 up that the files use
HighBytes == {"xC3", "xA9", "xE9", "x81", "xEF", "xBB", "xBF"}

\* among them the UTF-8 continuation bytes (0x80..0xBF)
Continuations == {"xA9", "x81", "xBB", "xBF"}

\* the length of the UTF-8 sequence a byte starts: 2 for 0xC2..0xDF, 3 for
\* 0xE0..0xEF, none for a continuation byte
utf8_width(b) ==
    IF b \in {"xC3"} THEN 2
    ELSE IF b \in {"xE9", "xEF"} THEN 3
    ELSE 0

\* the character a well-formed UTF-8 sequence of these bytes encodes
utf8_char(bs) ==
    CASE bs = <<"xC3", "xA9">> -> "U+00E9"
      [] bs = <<"xC3", "x81">> -> "U+00C1"
      [] bs = <<"xC3", "xBB">> -> "U+00FB"
      [] bs = <<"xC3", "xBF">> -> "U+00FF"
      [] bs = <<"xE9", "xA9", "xA9">> -> "U+9A69"
      [] bs = <<"xE9", "xA9", "x81">> -> "U+9A41"
      [] bs = <<"xE9", "xA9", "xBB">> -> "U+9A7B"
      [] bs = <<"xE9", "xA9", "xBF">> -> "U+9A7F"
      [] bs = <<"xE9", "x81", "xA9">> -> "U+9069"
      [] bs = <<"xE9", "x81", "x81">> -> "U+9041"
      [] bs = <<"xE9", "x81", "xBB">> -> "U+907B"
      [] bs = <<"xE9", "x81", "xBF">> -> "U+907F"
      [] bs = <<"xE9", "xBB", "xA9">> -> "U+9EE9"
      [] bs = <<"xE9", "xBB", "x81">> -> "U+9EC1"
      [] bs = <<"xE9", "xBB", "xBB">> -> "U+9EFB"
      [] bs = <<"xE9", "xBB", "xBF">> -> "U+9EFF"
      [] bs = <<"xE9", "xBF", "xA9">> -> "U+9FE9"
      [] bs = <<"xE9", "xBF", "x81">> -> "U+9FC1"
      [] bs = <<"xE9", "xBF", "xBB">> -> "U+9FFB"
      [] bs = <<"xE9", "xBF", "xBF">> -> "U+9FFF"
      [] bs = <<"xEF", "xA9", "xA9">> -> "U+FA69"
      [] bs = <<"xEF", "xA9", "x81">> -> "U+FA41"
      [] bs = <<"xEF", "xA9", "xBB">> -> "U+FA7B"
      [] bs = <<"xEF", "xA9", "xBF">> -> "U+FA7F"
      [] bs = <<"xEF", "x81", "xA9">> -> "U+F069"
      [] bs = <<"xEF", "x81", "x81">> -> "U+F041"
      [] bs = <<"xEF", "x81", "xBB">> -> "U+F07B"
      [] bs = <<"xEF", "x81", "xBF">> -> "U+F07F"
      [] bs = <<"xEF", "xBB", "xA9">> -> "U+FEE9"
      [] bs = <<"xEF", "xBB", "x81">> -> "U+FEC1"
      [] bs = <<"xEF", "xBB", "xBB">> -> "U+FEFB"
      [] bs = <<"xEF", "xBB", "xBF">> -> "U+FEFF"
      [] bs = <<"xEF", "xBF", "xA9">> -> "U+FFE9"
      [] bs = <<"xEF", "xBF", "x81">> -> "U+FFC1"
      [] bs = <<"xEF", "xBF", "xBB">> -> "U+FFFB"
      [] bs = <<"xEF", "xBF", "xBF">> -> "U+FFFF"

\* bytes.decode("utf-8"): ok is FALSE where Python raises UnicodeDecodeError
RECURSIVE decode_utf8(_)
decode_utf8(s) ==
    IF \A i \in DOMAIN s : s[i] \notin HighBytes THEN [ok |-> TRUE, text |-> s]
    ELSE IF Head(s) \notin HighBytes
    THEN LET r == decode_utf8(Tail(s))
         IN  [ok |-> r.ok, text |-> <<Head(s)>> \o r.text]
    ELSE LET w == utf8_width(Head(s))
         IN  IF w = 0 \/ Len(s) < w \/ \E i \in 2..w : s[i] \notin Continuations
             THEN [ok |-> FALSE, text |-> <<>>]
             ELSE LET r == decode_utf8(SubSeq(s, w + 1, Len(s)))
                  IN  [ok |-> r.ok, text |-> <<utf8_char(SubSeq(s, 1, w))>> \o r.text]

\* the character of a byte in Windows-1252; 0x81 has none
cp1252_char(b) ==
    CASE b = "xC3" -> "U+00C3"
      [] b = "xA9" -> "U+00A9"
      [] b = "xE9" -> "U+00E9"
      [] b = "xEF" -> "U+00EF"
      [] b = "xBB" -> "U+00BB"
      [] b = "xBF" -> "U+00BF"
      [] OTHER -> b

Cp1252Undefined == {"x81"}

\* the character of a byte in Latin-1: the code point equal to the byte
latin1_char(b) ==
    CASE b = "xC3" -> "U+00C3"
      [] b = "xA9" -> "U+00A9"
      [] b = "xE9" -> "U+00E9"
      [] b = "x81" -> "U+0081"
      [] b = "xEF" -> "U+00EF"
      [] b = "xBB" -> "U+00BB"
      [] b = "xBF" -> "U+00BF"
      [] OTHER -> b

\* the fallback list of read_csv_safe and of the item parser
ENCODINGS == <<"utf-8", "utf-8-sig", "cp1252", "latin1">>

\* the bytes of one cell decoded with an encoding
decode_cell(enc, s) ==
    CASE enc \in {"utf-8", "utf-8-sig"} -> decode_utf8(s)
      [] enc = "cp1252" ->
            [ok   |-> \A i \in DOMAIN s : s[i] \notin Cp1252Undefined,
             text |-> [i \in DOMAIN s |-> cp1252_char(s[i])]]
      [] enc = "latin1" ->
            [ok |-> TRUE, text |-> [i \in DOMAIN s |-> latin1_char(s[i])]]

\* the byte order mark, the first three bytes of a file with signature
BOM == <<"xEF", "xBB", "xBF">>

\* the rows of a file decoded with an encoding, the file being the list of its rows
\* of cells: the text is decoded cell by cell (the bytes between two cells are
\* ASCII); utf-8-sig drops a byte order mark at the start of the file
decode_rows(enc, rows) ==
    LET signed == /\ enc = "utf-8-sig" /\ rows # <<>> /\ rows[1] # <<>>
                  /\ startswith(rows[1][1], BOM)
        bytes(i, j) == IF signed /\ i = 1 /\ j = 1
                       THEN SubSeq(rows[1][1], 4, Len(rows[1][1]))
                       ELSE rows[i][j]
    IN  [ok   |-> \A i \in DOMAIN rows : \A j \in DOMAIN rows[i] :
                      decode_cell(enc, bytes(i, j)).ok,
         rows |-> [i \in DOMAIN rows |->
                     [j \in DOMAIN rows[i] |-> decode_cell(enc, bytes(i, j)).text]]]

\* a file that cannot be opened or read at all (open() or the reader raises
\* whatever the encoding)
unreadable(f) == "oserror" \in DOMAIN f

\* the rows of a wide export as a list, header first, and back
wide_rows(f)    == <<f.header>> \o f.rows
wide_file(rows) == [header |-> rows[1], rows |-> Tail(rows)]

\* pd.read_csv(path) of the customer-type and vendor pages: the default encoding,
\* UTF-8; ok is FALSE where it raises
read_utf8(f) ==
    IF unreadable(f) THEN [ok |-> FALSE, rows |-> <<>>]
    ELSE decode_rows("utf-8", wide_rows(f))

\* the encodings of the fallback list, in order, that decode the rows
decoding(rows) == SelectSeq(ENCODINGS, LAMBDA enc : decode_rows(enc, rows).ok)

\* read_csv_safe(path): the first encoding of the list that decodes; stop is the
\* st.error / st.stop() exit after the last one, raised where read_csv raises
\* another error than UnicodeDecodeError
read_csv_safe(f) ==
    IF unreadable(f) THEN [raised |-> TRUE, stop |-> FALSE, rows |-> <<>>]
    ELSE IF decoding(wide_rows(f)) = <<>>
    THEN [raised |-> FALSE, stop |-> TRUE, rows |-> <<>>]
    ELSE [raised |-> FALSE, stop |-> FALSE,
          rows   |-> decode_rows(Head(decoding(wide_rows(f))), wide_rows(f)).rows]


\* the rows csv.reader returns for an item file
csv_rows(f) == f.header \o f.rows

\* Sales_By_Item.py lines 107-117: the rows read with the first encoding of the
\* list under which open() and csv.reader raise nothing; no rows (None) when every
\* one raises
read_rows(f) ==
    IF unreadable(f) \/ decoding(csv_rows(f)) = <<>> THEN <<>>
    ELSE decode_rows(Head(decoding(csv_rows(f))), csv_rows(f)).rows

-----------------------------------------------------------------------------
(* Loader runs: the files of a run are drawn from bounded sets *)

\* most data rows over all the files of one run
MaxRows == 2

\* the session before the first run: nothing cached, nothing sorted, no earlier run
NoSession == cache = <<>> /\ sorts = <<>> /\ last = <<>> /\ runs = 1

WidePages == {"type", "customer", "vendor"}
Pages     == WidePages \cup {"item"}

\* the paths dict of a run: the years whose files the loop loads, in iteration
\* order.  The code's dict has the three years of YEAR_ORDER; a run here has one or
\* two, and the loop treats every entry alike
PathChoices == { <<"2023">>, <<"2023", "2024">> }

T_Name == <<"N","a","m","e">>

\* header rows of the wide exports: the label column, then the value columns
WideHeaders ==
    { <<T_Name, Jan, Feb, Mar>>,
      <<T_Name, <<"J","a","n"," ","2","3">>, <<"F","e","b"," ","2","3">>, T_TOTAL>>,
      <<T_Name, <<"J","A","N","-","2","0","2","3">>, <<"Q","1">>, T_Total>> }

\* the value cells of a wide row: all numbers; a blank and a text cell (not one of
\* the markers read_csv takes for a missing value)
WideCells ==
    { <<<<"1">>, <<"2">>, <<"3">>>>,
      <<<<>>, <<"t","b","d">>, <<"3">>>> }

T_Acme  == <<"A","c","m","e">>
T_Grand == <<"G","r","a","n","d"," ","T","o","t","a","l">>
T_CHLA_Id    == <<"0","0","0","0","5","8","7","4","2","8">>
T_CHLA_Total == <<"T","o","t","a","l"," ","C","h","i","l","d","r","e","n","s"," ","H","o","s","p","i","t","a","l"," ","o","f"," ","L","o","s"," ","A","n","g","e","l","e","s">>

\* the labels of the rows of a wide export
WideLabels(p) ==
    IF p = "customer"
    THEN {T_CHLA_Id, T_CHLA_Total, T_Total, <<" ">>}
    ELSE {T_Acme, T_Grand, T_Total, <<" ">>}

WideRows(p) == {<<l>> \o c : l \in WideLabels(p), c \in WideCells}

T_Qty    == <<"Q","t","y">>
T_Amount == <<"A","m","o","u","n","t">>
T_Pct    == <<"%"," ","o","f"," ","S","a","l","e","s">>
T_Avg    == <<"A","v","g"," ","P","r","i","c","e">>
Block4   == <<T_Qty, T_Amount, T_Pct, T_Avg>>
Block2   == <<T_Qty, T_Amount>>

\* the two header rows of the item exports: 4-column blocks with a trailing TOTAL
\* block; 2-column groups under a month cell, with a trailing TOTAL group; 4-column
\* blocks whose month cells are in other spellings
ItemHeaders ==
    { << <<<<>>, <<"J","a","n"," ","2","3">>, <<"F","e","b"," ","2","3">>, T_TOTAL>>,
         <<<<>>>> \o Block4 \o Block4 \o Block4 >>,
      << <<<<>>, <<"J","a","n"," ","2","3">>, <<>>, <<"F","e","b"," ","2","3">>, <<>>, T_TOTAL, <<>>>>,
         <<<<>>>> \o Block2 \o Block2 \o Block2 >>,
      << <<<<>>, <<"J","A","N","-","2","0","2","3">>, <<"Q","1">>, <<"D","e","c","e","m","b","e","r">>>>,
         <<<<>>>> \o Block4 \o Block4 \o Block4 >> }

\* the qty and amount cells of an item row for the three column groups
ItemCells ==
    { << <<"1">>, <<"$","2">>, <<"2">>, <<"1">>, <<"3">>, <<"3">> >>,
      << <<>>, <<"-">>, <<"0">>, <<"(","1",")">>, <<"0">>, <<"(","1",")">> >> }

T_Filter == <<"F","i","l","t","e","r">>
T_Labor  == <<"L","A","B","O","R"," ","(","L","A","B","O","R",")">>
T_Parts  == <<"P","a","r","t","s">>
T_TotalParts == <<"T","o","t","a","l"," ","P","a","r","t","s">>

ItemLabels == {T_Filter, T_Labor, T_Parts, T_TotalParts}

\* an item row laid out under a header: the label, then each group's qty and amount
\* cells followed by the group's other metric cells
item_row(h, l, c) ==
    LET width == (Len(h[2]) - 1) \div 3
        fill  == IF width = 4 THEN <<<<"5","0","%">>, <<"1">>>> ELSE <<>>
    IN  <<l>> \o <<c[1], c[2]>> \o fill \o <<c[3], c[4]>> \o fill \o <<c[5], c[6]>> \o fill

ItemRows(h) == {item_row(h, l, c) : l \in ItemLabels, c \in ItemCells}

\* all lists of at most n elements of S
RowLists(S, n) == UNION {[1..k -> S] : k \in 0..n}

\* the files of a run: one per year of the paths, all with the same header rows, and
\* at most MaxRows data rows in total
RECURSIVE FileSets(_, _, _, _)
FileSets(p, h, years, budget) ==
    IF years = <<>> THEN {<<>>}
    ELSE UNION { { <<f>> \o rest : rest \in FileSets(p, h, Tail(years), budget - Len(f.rows)) }
                 : f \in { [header |-> h, rows |-> rs]
                           : rs \in RowLists(IF p = "item" THEN ItemRows(h) ELSE WideRows(p),
                                             budget) } }

InitLoad ==
    /\ page \in Pages
    /\ paths \in PathChoices
    /\ \E h \in (IF page = "item" THEN ItemHeaders ELSE WideHeaders) :
           files \in FileSets(page, h, paths, MaxRows)
    /\ dfs = <<>>
    /\ data = <<>>
    /\ pc = "load"
    /\ fn = "none" /\ arg = <<>> /\ out = Pending
    /\ ctl = <<>> /\ view = <<>>
    /\ NoSession /\ groupby_observed = FALSE

\* the file and the year of the next loop iteration
next_year == paths[Len(dfs) + 1]
next_file == files[Len(dfs) + 1]

\* app.py lines 83-100: one iteration of the load loop; an exception of read_csv
\* ends the run
LoadType ==
    /\ pc = "load" /\ page = "type" /\ Len(dfs) < Len(paths)
    /\ LET got == read_utf8(next_file)
       IN  IF got.ok
           THEN pc' = pc /\ dfs' = Append(dfs, load_type_file(wide_file(got.rows), next_year))
           ELSE pc' = "crashed" /\ dfs' = dfs
    /\ UNCHANGED <<page, paths, files, data, fnVars, pageVars, sessVars>>

\* purchase_orders.py lines 33-54, one iteration of the loop, run when st.cache_data holds no result for paths
LoadPurchases ==
    /\ pc = "load" /\ page = "vendor" /\ Len(dfs) < Len(paths)
    /\ paths \notin DOMAIN cache
    /\ LET got == read_utf8(next_file)
       IN  IF got.ok
           THEN /\ pc' = pc
                /\ dfs' = Append(dfs, load_purchases_file(wide_file(got.rows), next_year))
           ELSE pc' = "crashed" /\ dfs' = dfs
    /\ UNCHANGED <<page, paths, files, data, fnVars, pageVars, sessVars>>

\* Sales_By_Customer.py lines 52-103, one iteration of the loop, run when st.cache_data holds no result for paths
LoadCustomer ==
    /\ pc = "load" /\ page = "customer" /\ Len(dfs) < Len(paths)
    /\ paths \notin DOMAIN cache
    /\ LET got == read_csv_safe(next_file)
       IN  IF got.raised THEN pc' = "crashed" /\ dfs' = dfs
           ELSE IF got.stop THEN pc' = "load_failed" /\ dfs' = dfs
           ELSE /\ pc' = pc
                /\ dfs' = Append(dfs, load_customer_file(wide_file(got.rows), next_year))
    /\ UNCHANGED <<page, paths, files, data, fnVars, pageVars, sessVars>>

\* the call of the parser with the st.stop() of its error exit left out (a variant
\* the load-failure property must tell apart from the code)
ParseItem_without_stop ==
    /\ pc = "load" /\ page = "item" /\ Len(dfs) < Len(paths)
    /\ dfs' = Append(dfs, parse_qb_sales_by_item_summary(read_rows(next_file), next_year).df)
    /\ UNCHANGED <<pc, page, paths, files, data, fnVars, pageVars, sessVars>>

\* Sales_By_Item.py line 213: one call of the parser, which st.cache_data answers
\* from the cache when it holds a result for the path and year; a file with fewer
\* than 3 rows ends the run, and nothing is cached for it
ParseItem ==
    /\ pc = "load" /\ page = "item" /\ Len(dfs) < Len(paths)
    /\ IF next_year \in DOMAIN cache
       THEN pc' = pc /\ dfs' = Append(dfs, cache[next_year]) /\ cache' = cache
       ELSE LET res == parse_qb_sales_by_item_summary(read_rows(next_file), next_year)
            IN  IF res.stop
                THEN pc' = "load_failed" /\ dfs' = dfs /\ cache' = cache
                ELSE /\ pc' = pc /\ dfs' = Append(dfs, res.df)
                     /\ cache' = (next_year :> res.df) @@ cache
    /\ UNCHANGED <<page, paths, files, data, fnVars, pageVars>>
    /\ UNCHANGED <<sorts, last, runs, groupby_observed>>

\* app.py line 102: data = pd.concat(dfs)
ConcatType ==
    /\ pc = "load" /\ page = "type" /\ Len(dfs) = Len(paths)
    /\ data' = Flatten(dfs)
    /\ pc' = "loaded"
    /\ UNCHANGED <<loadVars, fnVars, pageVars, sessVars>>

\* purchase_orders.py lines 56-58, Sales_By_Customer.py lines 105-107: concat, then
\* drop the records whose entity is the empty string; st.cache_data keeps the
\* returned frame under the paths argument
ConcatFiltered ==
    /\ pc = "load" /\ page \in {"vendor", "customer"} /\ Len(dfs) = Len(paths)
    /\ paths \notin DOMAIN cache
    /\ data' = drop_blank_entity(Flatten(dfs))
    /\ cache' = (paths :> data') @@ cache
    /\ pc' = "loaded"
    /\ UNCHANGED <<loadVars, fnVars, pageVars>>
    /\ UNCHANGED <<sorts, last, runs, groupby_observed>>

\* Sales_By_Item.py lines 214-222: concat of the non-empty frames; pd.concat raises
\* ValueError on an empty list, before the data.empty check can run
ConcatItem ==
    /\ pc = "load" /\ page = "item" /\ Len(dfs) = Len(paths)
    /\ LET nonempty == SelectSeq(dfs, LAMBDA d : d # <<>>)
       IN  IF nonempty = <<>>
           THEN pc' = "crashed" /\ data' = data
           ELSE data' = Flatten(nonempty) /\ pc' = "loaded"
    /\ UNCHANGED <<loadVars, fnVars, pageVars, sessVars>>

NextLoad ==
    \/ LoadType \/ LoadPurchases \/ LoadCustomer \/ ParseItem
    \/ ConcatType \/ ConcatFiltered \/ ConcatItem

SpecLoad == InitLoad /\ [][NextLoad]_vars

-----------------------------------------------------------------------------
(* Helper runs: one call of a pure helper on an argument drawn from a bounded set *)

SeqsUpTo(S, n) == UNION {[1..k -> S] : k \in 0..n}

Pads == {<<>>, <<" ">>}

ClassifierCores ==
    { <<>>, <<"t","o","t","a","l">>, <<"T","o","t","a","l">>, <<"T","O","T","A","L">>,
      <<"G","r","a","n","d"," ","T","o","t","a","l">>, <<"g","r","a","n","d"," ","t","o","t","a","l">>, <<"G","r","a","n","d"," ","T","o","t","a","l","s">>,
      <<"S","u","b","t","o","t","a","l"," ","-"," ","P","a","r","t","s">>, <<"P","a","r","t","s"," ","s","u","b","t","o","t","a","l">>,
      <<"t","o","t","a","l"," ","w","i","d","g","e","t","s">>, <<"T","o","t","a","l"," ","A","c","m","e"," ","C","o","r","p">>, <<"t","o","t","a","l","s">>, <<"T","o","t","a","l","l","y">>,
      <<"A","c","m","e"," ","C","o","r","p">>, <<"F","i","l","t","e","r"," ","2","0","x","2","0">>,
      <<"P","a","r","t","s">>, <<"i","n","v","e","n","t","o","r","y">>, <<"U","n","c","a","t","e","g","o","r","i","z","e","d">>, <<"O","t","h","e","r"," ","C","h","a","r","g","e","s">>, <<"O","t","h","e","r">>,
      <<"i","t","e","m">>, <<"I","t","e","m","s">>, <<"N","a","m","e">>, <<"D","E","S","C","R","I","P","T","I","O","N">>, <<"I","t","e","m"," ","7">> }

ClassifierInputs ==
    {None} \cup {l \o c \o r : l \in Pads, c \in ClassifierCores, r \in Pads}

MonthCores ==
    { <<>>, <<"J","a","n">>, <<"J","A","N">>, <<"j","a","n">>, <<"j","A","N">>, <<"J","a","n","u","a","r","y">>, <<"J","a","n"," ","2","3">>,
      <<"J","A","N","-","2","0","2","3">>, <<"F","e","b">>, <<"f","e","b"," ","2","4">>, <<"D","e","c"," ","2","5">>, <<"D","E","C","E","M","B","E","R">>, <<"M","a","y">>, <<"M","a">>,
      <<"M","a","i">>, <<"J"," ","a","n">>, <<"Q","1">>, <<"T","O","T","A","L">>, <<"T","o","t","a","l">>, <<"S","e","p","t">>, <<"S","e","p">>, <<"1","J","a","n">> }

MonthInputs ==
    {l \o c \o r : l \in Pads, c \in MonthCores, r \in Pads}

MoneyChars == {"$", ",", "(", ")", "-", " ", "0", "1", "2", "x", EmDash}

MoneyInputs == {None} \cup SeqsUpTo(MoneyChars, MaxLen)

FnCalls ==
    ({"classify"} \X ClassifierInputs) \cup ({"month3"} \X MonthInputs)
        \cup ({"money"} \X MoneyInputs)

InitFn ==
    /\ \E c \in FnCalls : fn = c[1] /\ arg = c[2]
    /\ out = Pending
    /\ pc = "call"
    /\ page = "none" /\ paths = <<>> /\ files = <<>> /\ dfs = <<>> /\ data = <<>>
    /\ ctl = <<>> /\ view = <<>>
    /\ NoSession /\ groupby_observed = FALSE

Classify ==
    /\ pc = "call" /\ fn = "classify"
    /\ out' = is_group_or_total_row(arg)
    /\ pc' = "returned"
    /\ UNCHANGED <<fn, arg, data, loadVars, pageVars, sessVars>>

CleanMoney ==
    /\ pc = "call" /\ fn = "money"
    /\ out' = clean_money(arg)
    /\ pc' = "returned"
    /\ UNCHANGED <<fn, arg, data, loadVars, pageVars, sessVars>>

\* the item export whose only month header cell is label: one 4-column block and
\* one item row with a quantity and an amount
month_probe(label) ==
    << <<<<>>, label>>,
       <<<<>>>> \o Block4,
       <<T_Filter, <<"1">>, <<"$","2">>, <<"5","0","%">>, <<"1">>>> >>

\* _month3 on a header cell, and the parse of the export that has this cell as its
\* month header (the parser calls _month3 on every month header cell)
Month3 ==
    /\ pc = "call" /\ fn = "month3"
    /\ out' = month3(arg)
    /\ data' = parse_qb_sales_by_item_summary(month_probe(arg), "2023").df
    /\ pc' = "returned"
    /\ UNCHANGED <<fn, arg, loadVars, pageVars, sessVars>>

NextFn == Classify \/ CleanMoney \/ Month3

SpecFn == InitFn /\ [][NextFn]_vars

-----------------------------------------------------------------------------
(* pandas primitives used by the page scripts *)

\* the characters of the labels in code-point order
CodePoints ==
    <<" ", "(", ")", "-", "0", "1", "2", "3", "4", "5", "6", "7", "8", "9">>
        \o UpperLetters \o LowerLetters

code_point(c) == CHOOSE i \in DOMAIN CodePoints : CodePoints[i] = c

\* a < b for two Python strings
RECURSIVE str_lt(_, _)
str_lt(a, b) ==
    IF b = <<>> THEN FALSE
    ELSE IF a = <<>> THEN TRUE
    ELSE IF Head(a) = Head(b) THEN str_lt(Tail(a), Tail(b))
    ELSE code_point(Head(a)) < code_point(Head(b))

year_index(y)  == CHOOSE i \in DOMAIN YEAR_ORDER : YEAR_ORDER[i] = y

\* the order groupby(sort=True) gives its keys: years and entities as strings, months
\* in the order of their categories; k is a record with some of the fields year,
\* month, entity, compared in that order
key_lt(a, b) ==
    LET has(f) == f \in DOMAIN a
        yr == IF has("year") THEN year_index(a.year) - year_index(b.year) ELSE 0
        mo == IF has("month") THEN month_index(a.month) - month_index(b.month) ELSE 0
    IN  \/ yr < 0
        \/ yr = 0 /\ mo < 0
        \/ yr = 0 /\ mo = 0 /\ has("entity") /\ str_lt(a.entity, b.entity)

\* the elements of a set of keys in increasing order
RECURSIVE sorted_keys(_)
sorted_keys(S) ==
    IF S = {} THEN <<>>
    ELSE LET least == CHOOSE k \in S : \A o \in S \ {k} : key_lt(k, o)
         IN  <<least>> \o sorted_keys(S \ {least})

\* Series.sum(): NaN values are skipped
sum_skipna(recs) ==
    SumSeq([n \in DOMAIN recs |-> IF IsNum(recs[n].measure) THEN recs[n].measure.num ELSE 0])

\* a key with a missing entity or month: groupby drops its records (dropna=True)
key_is_na(k) == \E f \in DOMAIN k \ {"year"} : k[f] = NaNLabel

\* the grouping fields dims of a record
key_of(r, dims) == [f \in dims |-> r[f]]

\* a variant of groupby with sort=False: the rows come in the order in which their
\* keys first appear in the frame (the aggregate properties must tell it apart from
\* the code)
groupby_sum_unsorted(frame, dims, observed) ==
    LET valid  == {n \in DOMAIN frame : ~key_is_na(key_of(frame[n], dims))}
        firsts == SelectSeq(Indexes(Len(frame)),
                            LAMBDA n : /\ n \in valid
                                       /\ \A m \in 1..(n - 1) :
                                            key_of(frame[m], dims) # key_of(frame[n], dims))
        sum(k) == sum_skipna(SelectSeq(frame, LAMBDA r : key_of(r, dims) = k))
    IN  [i \in DOMAIN firsts |->
            [f \in dims \cup {"sales"} |->
                IF f = "sales" THEN sum(key_of(frame[firsts[i]], dims))
                ELSE frame[firsts[i]][f]]]

\* frame.groupby(dims, as_index=False)[measure].sum(), dims a set of the fields year,
\* month, entity.  The rows are the keys present in the frame; when Month, a
\* categorical, is one of the grouping fields and observed is FALSE (the default of
\* groupby before pandas 3), they are all 12 categories combined with every present
\* value of the other fields.  A row is its key with the sum as sales.
groupby_sum(frame, dims, observed) ==
    LET present == {key_of(frame[n], dims) : n \in DOMAIN frame}
        valid   == {k \in present : ~key_is_na(k)}
        keys    == IF observed \/ "month" \notin dims
                   THEN valid
                   ELSE {[k EXCEPT !.month = m] : k \in valid, m \in Months}
        sum(k)  == sum_skipna(SelectSeq(frame, LAMBDA r : key_of(r, dims) = k))
        order   == sorted_keys(keys)
    IN  [i \in DOMAIN order |->
            [f \in dims \cup {"sales"} |->
                IF f = "sales" THEN sum(order[i]) ELSE order[i][f]]]

\* the orders of the rows S of a table in which the sums, taken with the sign, do
\* not decrease: every row with the least signed sum may come first
RECURSIVE orders_by(_, _, _)
orders_by(table, S, sign) ==
    IF S = {} THEN {<<>>}
    ELSE UNION { {<<i>> \o rest : rest \in orders_by(table, S \ {i}, sign)}
                 : i \in {j \in S : \A k \in S :
                                       sign * table[j].sales <= sign * table[k].sales} }

\* a variant of the ranking that sorts in increasing order
sort_desc_as_ascending(table) ==
    {[i \in DOMAIN table |-> table[p[i]]] : p \in orders_by(table, DOMAIN table, 1)}

\* table.sort_values(measure, ascending=False): the default sort (quicksort) is not
\* stable, so rows with equal sums come out in any order; the set of the possible
\* results
sort_desc(table) ==
    {[i \in DOMAIN table |-> table[p[i]]] : p \in orders_by(table, DOMAIN table, 0 - 1)}

\* a variant of the ranking whose order of equal sums changes from call to call
ranking_anew(table) == sort_desc(table)

\* what sort_values returns for a table in this session: the sort is not stable but
\* it is a function of its input, so a table sorted before comes out as it did then
ranking(table) ==
    IF table \in DOMAIN sorts THEN {sorts[table]} ELSE sort_desc(table)

\* table.head(n)
head(table, n) == SubSeq(table, 1, IF n < Len(table) THEN n ELSE Len(table))

\* the entity column of a table, as a list
entities(table) == [i \in DOMAIN table |-> table[i].entity]

\* a variant of the membership filter that removes no row
isin_keeping_all(frame, names) == frame

\* frame[frame[entity].isin(names)]
isin(frame, names) ==
    SelectSeq(frame, LAMBDA r : \E i \in DOMAIN names : names[i] = r.entity)

\* frame[frame["Year"] == y]
of_year(frame, y) == SelectSeq(frame, LAMBDA r : r.year = y)

-----------------------------------------------------------------------------
(* The derived tables of the four page scripts.  ctl is the sidebar state; observed
   is the installed pandas' groupby default for categorical keys; by_year and
   overall are the two rankings as sort_values returned them *)

\* app.py lines 118-164
type_view(observed, by_year, overall) ==
    LET top_types_year    == entities(head(by_year, ctl.top_n))
        year_df           == isin(of_year(data, ctl.selected_year), top_types_year)
        overall_top_types == entities(head(overall, ctl.top_n))
    IN  [observed            |-> observed,
         top_types_year      |-> top_types_year,
         monthly_grouped     |-> groupby_sum(year_df, {"month", "entity"}, observed),
         year_totals         |-> groupby_sum(data, {"year"}, observed),
         overall_top_types   |-> overall_top_types,
         comparison_by_type  |-> isin(groupby_sum(data, {"year", "entity"}, observed),
                                      overall_top_types),
         totals_by_year_type |-> groupby_sum(data, {"year", "entity"}, observed),
         selected_year_total |-> sum_skipna(year_df),
         all_years_total     |-> sum_skipna(data)]

\* Sales_By_Customer.py lines 127-155
customer_view(observed, by_year, overall) ==
    LET top_customers_overall == entities(head(overall, ctl.top_n))
    IN  [customer_totals_year    |-> by_year,
         total_year              |-> SumSeq([i \in DOMAIN by_year |-> by_year[i].sales]),
         year_totals_all         |-> groupby_sum(data, {"year"}, observed),
         overall_customer_totals |-> overall,
         top_customers_overall   |-> top_customers_overall,
         totals_by_year_customer |-> groupby_sum(isin(data, top_customers_overall),
                                                 {"year", "entity"}, observed)]

\* purchase_orders.py lines 90-125
vendor_view(observed, by_year, overall) ==
    LET top_vendors_overall == entities(head(overall, ctl.top_n))
    IN  [vendor_totals_year    |-> by_year,
         total_year            |-> SumSeq([i \in DOMAIN by_year |-> by_year[i].sales]),
         top_vendors_year      |-> entities(head(by_year, ctl.top_n)),
         year_totals_all       |-> groupby_sum(data, {"year"}, observed),
         overall_vendor_totals |-> overall,
         top_vendors_overall   |-> top_vendors_overall,
         totals_by_year_vendor |-> groupby_sum(isin(data, top_vendors_overall),
                                               {"year", "entity"}, observed)]

\* the exclude-labor filter: ~Item.str.strip().str.upper().str.startswith(prefixes),
\* applied when the toggle is on
labor_prefixes == {<<"L","A","B","O","R">>, <<"L","A","B","O","R","-","P","F">>, <<"L","A","B","O","R","-","F","F">>}

\* a variant of the filter that ignores the toggle and removes nothing
without_labor_never(frame) == frame

without_labor(frame) ==
    IF ctl.exclude_labor
    THEN SelectSeq(frame, LAMBDA r : \A p \in labor_prefixes :
                                        ~startswith(upper(strip(r.entity)), p))
    ELSE frame

\* Sales_By_Item.py lines 245-250: the selected-year slice
item_year_df == without_labor(of_year(data, ctl.selected_year))

\* Sales_By_Item.py lines 252-255
data_view == without_labor(data)

\* Sales_By_Item.py lines 266-298
item_view(observed, by_year, overall) ==
    LET overall_top_items == entities(head(overall, ctl.top_n))
    IN  [observed           |-> observed,
         sku_totals         |-> by_year,
         top_items_year     |-> entities(head(by_year, ctl.top_n)),
         all_year_monthly   |-> groupby_sum(data_view, {"year", "month"}, observed),
         overall_top_items  |-> overall_top_items,
         comparison_by_item |-> isin(groupby_sum(data_view, {"year", "entity"}, observed),
                                     overall_top_items),
         selected_total     |-> sum_skipna(item_year_df)]

-----------------------------------------------------------------------------
(* Page runs: load, sidebar, derived tables, on exports with plain rows *)

\* how many values of the top-N slider a run may choose from, counted from its
\* minimum
MaxSlide == 2

\* st.sidebar.slider(label, min, max, default) of each page
slider(p) ==
    CASE p = "type"     -> [min |-> 3, max |-> 20]
      [] p = "customer" -> [min |-> 5, max |-> 50]
      [] p = "vendor"   -> [min |-> 3, max |-> 70]
      [] p = "item"     -> [min |-> 3, max |-> 20]

TopNChoices(p) == {n \in slider(p).min..slider(p).max : n < slider(p).min + MaxSlide}

T_Bolt == <<"B","o","l","t">>
T_Core == <<"C","o","r","e">>
T_Dyna == <<"D","y","n","a">>
T_Belt == <<"B","e","l","t">>
T_Gasket == <<"G","a","s","k","e","t">>

\* the entities of the plain exports, in file order
PlainNames(p) ==
    IF p = "item" THEN <<T_Filter, T_Labor, T_Belt, T_Gasket>>
    ELSE <<T_Acme, T_Bolt, T_Core, T_Dyna>>

PlainWideHeader == <<T_Name, Jan, Feb>>
PlainItemHeader ==
    << <<<<>>, <<"J","a","n"," ","2","3">>, <<"F","e","b"," ","2","3">>, T_TOTAL>>, <<<<>>>> \o Block4 \o Block4 \o Block4 >>

\* the row of entity l with January amount a; first marks the export of the first
\* year, where February has an amount too
plain_row(p, l, a, first) ==
    LET feb == IF first THEN <<"1">> ELSE <<>>
    IN  IF p = "item"
        THEN item_row(PlainItemHeader, l, <<<<"1">>, a, feb, feb, <<"2">>, <<"3">>>>)
        ELSE <<l, a, feb>>

\* the January amounts of the entities in the first year's export: all different,
\* one pair equal, two pairs equal
FirstYearPlans ==
    { <<<<"1">>, <<"3">>, <<"2">>, <<"4">>>>,
      <<<<"1">>, <<"2">>, <<"2">>, <<"3">>>>,
      <<<<"2">>, <<"2">>, <<"1">>, <<"1">>>> }

\* those of a later year's export, which has any of the first two entities (an
\* empty amount: no row)
LaterYearPlans == [1..2 -> {<<>>, <<"2">>}]

\* the exports of a run
PlainFiles(p, first) ==
    { [header |-> IF p = "item" THEN PlainItemHeader ELSE PlainWideHeader,
       rows   |-> LET present == SelectSeq(Indexes(Len(a)), LAMBDA i : a[i] # <<>>)
                  IN  [k \in DOMAIN present |->
                          plain_row(p, PlainNames(p)[present[k]], a[present[k]], first)]]
      : a \in IF first THEN FirstYearPlans ELSE LaterYearPlans }

InitPage ==
    /\ page \in Pages
    /\ paths \in PathChoices
    /\ files \in IF Len(paths) = 1
                 THEN {<<f>> : f \in PlainFiles(page, TRUE)}
                 ELSE {<<f, g>> : f \in PlainFiles(page, TRUE), g \in PlainFiles(page, FALSE)}
    /\ dfs = <<>>
    /\ data = <<>>
    /\ pc = "load"
    /\ fn = "none" /\ arg = <<>> /\ out = Pending
    /\ ctl = <<>> /\ view = <<>>
    /\ NoSession /\ groupby_observed \in BOOLEAN

\* a variant of the year selector that lists the years in the order of the paths
available_years_as_supplied ==
    SelectSeq(paths,
              LAMBDA y : IF page = "item" THEN TRUE
                         ELSE \E n \in DOMAIN data : data[n].year = y)

\* the years of the year selector: the item page lists the years whose file exists,
\* the other pages the years found in the Dataset, both in YEAR_ORDER
available_years ==
    SelectSeq(YEAR_ORDER,
              LAMBDA y : IF page = "item"
                         THEN \E k \in DOMAIN paths : paths[k] = y
                         ELSE \E n \in DOMAIN data : data[n].year = y)

\* the sidebar: year selector, top-N slider and, on the item page, the labor toggle
Sidebar ==
    /\ pc = "loaded"
    /\ \E y \in {available_years[i] : i \in DOMAIN available_years},
          n \in TopNChoices(page),
          x \in IF page = "item" THEN BOOLEAN ELSE {FALSE} :
         ctl' = [selected_year |-> y, top_n |-> n, exclude_labor |-> x]
    /\ pc' = "selected"
    /\ UNCHANGED <<data, view, loadVars, fnVars, sessVars>>

\* the frame whose per-entity sums the page ranks for the selected year, and the
\* one it ranks over all years
year_frame    == IF page = "item" THEN item_year_df ELSE of_year(data, ctl.selected_year)
overall_frame == IF page = "item" THEN data_view ELSE data

\* Sales_By_Item.py lines 262-264: st.warning and st.stop() on an empty slice
NoData ==
    /\ pc = "selected" /\ page = "item"
    /\ item_year_df = <<>>
    /\ pc' = "no_data"
    /\ UNCHANGED <<data, ctl, view, loadVars, fnVars, sessVars>>

\* the per-entity sums the page ranks for the selected year and over all years
year_totals_table    == groupby_sum(year_frame, {"entity"}, groupby_observed)
overall_totals_table == groupby_sum(overall_frame, {"entity"}, groupby_observed)

\* the rest of the script up to the KPI row: the derived tables
Derive ==
    /\ pc = "selected"
    /\ page = "item" => item_year_df # <<>>
    /\ \E by_year \in ranking(year_totals_table) :
       \E overall \in (IF overall_totals_table = year_totals_table THEN {by_year}
                       ELSE ranking(overall_totals_table)) :
         /\ view' = CASE page = "type"     -> type_view(groupby_observed, by_year, overall)
                      [] page = "customer" -> customer_view(groupby_observed, by_year, overall)
                      [] page = "vendor"   -> vendor_view(groupby_observed, by_year, overall)
                      [] page = "item"     -> item_view(groupby_observed, by_year, overall)
         /\ sorts' = (year_totals_table :> by_year) @@ (overall_totals_table :> overall)
                         @@ sorts
    /\ pc' = "rendered"
    /\ UNCHANGED <<data, ctl, loadVars, fnVars, cache, last, runs, groupby_observed>>

NextPage == NextLoad \/ Sidebar \/ NoData \/ Derive

SpecPage == InitPage /\ [][NextPage]_vars
-----------------------------------------------------------------------------
(* Sessions: the script runs again after every interaction, with what
   st.cache_data and the widgets keep between two runs *)

\* how many times the script is started in a session
MaxRuns == 2

T_Echo == <<"E","c","h","o">>
T_Flux == <<"F","l","u","x">>
T_Gear == <<"G","e","a","r">>
T_Hose == <<"H","o","s","e">>

\* the entities of the exports of a session, in file order: more than the least
\* value of the page's top-N slider plus one
SessionNames(p) ==
    CASE p = "item"     -> <<T_Filter, T_Labor, T_Belt, T_Gasket, T_Hose>>
      [] p = "customer" -> <<T_Acme, T_Bolt, T_Core, T_Dyna, T_Echo, T_Flux, T_Gear>>
      [] OTHER          -> <<T_Acme, T_Bolt, T_Core, T_Dyna, T_Echo>>

\* the paths argument: the page scripts list the years in YEAR_ORDER; the customer
\* and vendor loaders take the dict as a parameter, and are given it in the other
\* order here
SessionPaths(p) ==
    IF p \in {"customer", "vendor"} THEN <<"2024", "2023">> ELSE <<"2023", "2024">>

\* the January amounts of the n entities in the 2023 export: falling from 9, the
\* last three 5, 4, 3; and the same amounts in rising order
FallingAmounts(n) == [i \in 1..n |-> IF i <= n - 3 THEN 10 - i ELSE n - i + 3]
RisingAmounts(n)  == [i \in 1..n |-> FallingAmounts(n)[n + 1 - i]]

\* the 2023 export with the given amounts
export_2023(p, amounts) ==
    [header |-> IF p = "item" THEN PlainItemHeader ELSE PlainWideHeader,
     rows   |-> [i \in DOMAIN amounts |->
                    plain_row(p, SessionNames(p)[i], int_str(amounts[i]), TRUE)]]

\* the 2024 export: the last two entities, with amounts that make the last three
\* equal over both years; on the item page a subtotal row only
export_2024(p) ==
    LET n == Len(SessionNames(p))
    IN  IF p = "item"
        THEN [header |-> PlainItemHeader,
              rows   |-> <<plain_row(p, T_TotalParts, <<"2">>, FALSE)>>]
        ELSE [header |-> PlainWideHeader,
              rows   |-> <<plain_row(p, SessionNames(p)[n - 1], <<"1">>, FALSE),
                           plain_row(p, SessionNames(p)[n], <<"2">>, FALSE)>>]

\* the files of a session, in the order of the paths, with the given amounts in the
\* 2023 export
session_files(p, amounts) ==
    [k \in 1..2 |-> IF SessionPaths(p)[k] = "2023" THEN export_2023(p, amounts)
                    ELSE export_2024(p)]

\* the files a session starts with, and the ones that replace them
FirstFiles(p) == session_files(p, FallingAmounts(Len(SessionNames(p))))
OtherFiles(p) == session_files(p, RisingAmounts(Len(SessionNames(p))))

InitSession ==
    /\ page \in Pages
    /\ paths = SessionPaths(page)
    /\ files = FirstFiles(page)
    /\ dfs = <<>>
    /\ data = <<>>
    /\ pc = "load"
    /\ fn = "none" /\ arg = <<>> /\ out = Pending
    /\ ctl = <<>> /\ view = <<>>
    /\ NoSession /\ groupby_observed \in BOOLEAN

\* load_customer_sales_long(PATHS), load_purchases_long(PATHS) under st.cache_data:
\* a call whose argument is in the cache returns the cached frame; the body does
\* not run
CachedLoad ==
    /\ pc = "load" /\ page \in {"customer", "vendor"}
    /\ paths \in DOMAIN cache
    /\ data' = cache[paths]
    /\ pc' = "loaded"
    /\ UNCHANGED <<loadVars, fnVars, pageVars, sessVars>>

\* an interaction with a widget: the script starts again from its first line
Rerun ==
    /\ pc \in {"rendered", "no_data"}
    /\ runs < MaxRuns
    /\ last' = [ctl |-> ctl, data |-> data, view |-> view]
    /\ runs' = runs + 1
    /\ dfs' = <<>> /\ data' = <<>> /\ ctl' = <<>> /\ view' = <<>>
    /\ pc' = "load"
    /\ UNCHANGED <<page, paths, files, fnVars, cache, sorts, groupby_observed>>

\* between two runs the exports are replaced by new ones under the same names
FileChange ==
    /\ pc \in {"rendered", "no_data"}
    /\ runs < MaxRuns
    /\ files' \in {FirstFiles(page), OtherFiles(page)} \ {files}
    /\ UNCHANGED <<page, paths, dfs, data, pc, fnVars, pageVars, sessVars>>

NextSession == NextPage \/ CachedLoad \/ Rerun \/ FileChange

SpecSession == InitSession /\ [][NextSession]_vars

-----------------------------------------------------------------------------
(* Loader runs on exports in other encodings and shapes *)

\* the label Cafe with an accented e, as Windows-1252 and as UTF-8 bytes; a label
\* with the byte 0x81, which only Latin-1 decodes; a label of ASCII bytes
T_Cafe1252  == <<"C","a","f">> \o <<"xE9">>
T_CafeUtf8  == <<"C","a","f">> \o <<"xC3", "xA9">>
T_Latin1    == <<"A", "x81">>
T_Cafe      == <<"C","a","f","e">>

EncodedLabels == {T_Cafe1252, T_CafeUtf8, T_Latin1, T_Cafe}

\* the first bytes of a file: a byte order mark or nothing
Signatures == {BOM, <<>>}

\* a wide export of one row in some encoding
encoded_wide(sig, l) ==
    [header |-> <<sig \o T_Name, Jan, Feb>>, rows |-> << <<l, <<"1">>, <<"2">>>> >>]

\* an item export of one row in some encoding
encoded_item(sig, l) ==
    [header |-> << <<sig, <<"J","a","n"," ","2","3">>, <<"F","e","b"," ","2","3">>, T_TOTAL>>, PlainItemHeader[2] >>,
     rows   |-> << item_row(PlainItemHeader, l,
                            <<<<"1">>, <<"2">>, <<"1">>, <<"1">>, <<"2">>, <<"3">>>>) >>]

\* item exports that are cut short: an empty file, a file of one row, the two header
\* rows alone; and a file that cannot be read
ShortItemFiles ==
    { [header |-> <<>>, rows |-> <<>>],
      [header |-> <<PlainItemHeader[1]>>, rows |-> <<>>],
      [header |-> PlainItemHeader, rows |-> <<>>],
      [header |-> <<>>, rows |-> <<>>, oserror |-> TRUE] }

\* an item export whose only data row is a total row, which the parser skips
TotalsOnlyItemFile ==
    [header |-> PlainItemHeader,
     rows   |-> << item_row(PlainItemHeader, T_TotalParts,
                            <<<<"1">>, <<"2">>, <<"1">>, <<"1">>, <<"2">>, <<"3">>>>) >>]

\* the header rows of item exports in the three layouts: 4-column blocks; 2-column
\* groups under a month cell, with a trailing TOTAL group; 2-column groups whose
\* first group stands under a cell that is no month
LayoutHeaders ==
    { PlainItemHeader,
      << <<<<>>, <<"J","a","n"," ","2","3">>, <<>>, <<"F","e","b"," ","2","3">>, <<>>, T_TOTAL, <<>>>>,
         <<<<>>>> \o Block2 \o Block2 \o Block2 >>,
      << <<<<>>, <<"Q","1">>, <<>>, <<"F","e","b"," ","2","3">>, <<>>, <<"M","a","r"," ","2","3">>, <<>>>>,
         <<<<>>>> \o Block2 \o Block2 \o Block2 >> }

\* the qty and amount cells of a row for the three column groups: the first and the
\* third group filled, the third group alone, the second group alone
LayoutCells ==
    { << <<"1">>, <<"$","2">>, <<"0">>, <<"0">>, <<"1">>, <<"2">> >>,
      << <<"0">>, <<"0">>, <<"0">>, <<"0">>, <<"1">>, <<"2">> >>,
      << <<"0">>, <<>>, <<"3">>, <<"0">>, <<"0">>, <<"0">> >> }

\* a row cut after its first k cells, as csv.reader returns a short line; an empty
\* line gives the empty row
ragged(r, k) == SubSeq(r, 1, IF k < Len(r) THEN k ELSE Len(r))

\* how many cells the second row of a layout file keeps: none, the label, the label
\* and one cell, all
RowCuts == {0, 1, 2, 13}

\* item exports of two data rows under each layout, the second row cut short
LayoutItemFiles ==
    { [header |-> h,
       rows   |-> << item_row(h, T_Filter, << <<"1">>, <<"$","2">>, <<"0">>, <<"0">>, <<"1">>, <<"2">> >>),
                     ragged(item_row(h, T_Belt, c), k) >>]
      : h \in LayoutHeaders, c \in LayoutCells, k \in RowCuts }

T_Month == <<"M","o","n","t","h">>
T_month == <<"m","o","n","t","h">>
T_Sales == <<"S","a","l","e","s">>
T_AMOUNT == <<"A","M","O","U","N","T">>

\* the month labels of the two value columns of a customer export
MonthLabelPairs == { <<Jan, Feb>>, <<<<"J","a","n"," ","2","3">>, <<"F","E","B">>>> }

\* the two value cells of a customer row
ValuePairs == { <<<<"1">>, <<"2">>>>, <<<<>>, <<"t","b","d">>>> }

\* the rows of a customer export: two customers, or a customer and a total row
CustomerRowSets ==
    { << <<T_Acme>> \o a, <<l>> \o b >> : a \in ValuePairs, b \in ValuePairs,
                                          l \in {T_Bolt, T_Total} }

\* the wide shape of the facts: one row per customer, one column per month
wide_shape(months, rows) == [header |-> <<T_Name>> \o months, rows |-> rows]

\* the long shape of the same facts: one row per customer and month, customer by
\* customer, under the given names of the month and value columns
long_shape(months, rows, names) ==
    [header |-> <<T_Name>> \o names,
     rows   |-> Flatten([i \in DOMAIN rows |->
                    [k \in DOMAIN months |-> <<rows[i][1], months[k], rows[i][k + 1]>>]])]

LongColumnNames == { <<T_Month, T_Sales>>, <<T_month, T_AMOUNT>> }

\* the runs: the paths and their files
InputRuns(p) ==
    CASE p = "item" ->
            { <<<<"2023">>, <<f>>>> :
                f \in {encoded_item(sig, l) : sig \in Signatures, l \in EncodedLabels}
                         \cup ShortItemFiles }
                \cup { <<<<"2023", "2024">>, <<encoded_item(<<>>, T_Cafe), f>>>> :
                         f \in ShortItemFiles \cup {TotalsOnlyItemFile} }
                \cup { <<<<"2023">>, <<TotalsOnlyItemFile>>>> }
                \cup { <<<<"2023">>, <<f>>>> : f \in LayoutItemFiles }
      [] p = "customer" ->
            { <<<<"2023">>, <<encoded_wide(sig, l)>>>> : sig \in Signatures, l \in EncodedLabels }
                \cup { <<<<"2023", "2024">>,
                         <<wide_shape(m, rows), long_shape(m, rows, names)>>>> :
                         m \in MonthLabelPairs, rows \in CustomerRowSets,
                         names \in LongColumnNames }
      [] OTHER ->
            { <<<<"2023">>, <<encoded_wide(sig, l)>>>> : sig \in Signatures, l \in EncodedLabels }

InitInput ==
    /\ page \in Pages
    /\ \E run \in InputRuns(page) : paths = run[1] /\ files = run[2]
    /\ dfs = <<>>
    /\ data = <<>>
    /\ pc = "load"
    /\ fn = "none" /\ arg = <<>> /\ out = Pending
    /\ ctl = <<>> /\ view = <<>>
    /\ NoSession /\ groupby_observed \in BOOLEAN

SpecInput == InitInput /\ [][NextPage]_vars

-----------------------------------------------------------------------------
(* The downloads section that ends each page script *)

\* the keys of the fig_json map each page builds
fig_json(p) ==
    CASE p = "type"     -> {"monthly", "year_pie", "year_donut", "year_sections", "compare"}
      [] p = "customer" -> {"share_customers", "year_share", "top10", "yoy_monthly",
                            "year_sections"}
      [] p = "vendor"   -> {"vendor_share", "year_share", "rank", "avg_monthly",
                            "year_sections"}
      [] p = "item"     -> {"monthly_top", "share_topn", "top_skus"}

\* build_excel_report: the keys of its layout, read only when they are in the map
build_excel_report(fig_json_map) ==
    SelectSeq(<<"monthly", "year_pie", "year_donut", "year_sections", "compare">>,
              LAMBDA key : key \in fig_json_map)

\* the keys the download buttons of each page read with fig_json[key], in script
\* order
download_keys(p) ==
    CASE p = "type"     -> <<"monthly", "monthly", "year_pie", "year_pie">>
                               \o build_excel_report(fig_json(p))
      [] p = "customer" -> <<"share_customers", "year_share", "top10", "yoy_monthly",
                             "year_sections">>
      [] p = "vendor"   -> <<"vendor_share", "year_share", "rank", "avg_monthly",
                             "variability", "year_sections">>
      [] p = "item"     -> <<"monthly_top", "share_topn", "top_skus", "pareto",
                             "yoy_total", "core_vs_tail">>

\* the end of the script: with the downloads toggle off nothing more is done; with
\* it on every button reads its key, and a key that is not in the map raises
\* KeyError, which ends the run after the buttons before it
Downloads ==
    /\ pc = "rendered"
    /\ \E enable_downloads \in BOOLEAN :
         LET keys    == download_keys(page)
             missing == {i \in DOMAIN keys : keys[i] \notin fig_json(page)}
         IN  /\ ctl' = ctl @@ [enable_downloads |-> enable_downloads,
                               buttons |-> IF ~enable_downloads THEN 0
                                           ELSE IF missing = {} THEN Len(keys)
                                           ELSE (CHOOSE i \in missing :
                                                    \A j \in missing : i <= j) - 1]
             /\ pc' = IF enable_downloads /\ missing # {} THEN "crashed" ELSE "finished"
    /\ UNCHANGED <<data, view, loadVars, fnVars, sessVars>>

NextExport == NextPage \/ Downloads

SpecExport == InitPage /\ [][NextExport]_vars

-----------------------------------------------------------------------------
(* Properties of the helpers, checked on SpecFn *)

\* the label of a classifier call as the classifier's rule reads it: stripped and
\* lower-cased, a missing label read as the empty string
C1_low == lower(strip(IF arg = None THEN <<>> ELSE arg))

\* the rule of the row classifier on a normalised label, for a given set of
\* header-echo tokens
C1_rule(low, echo) ==
    \/ low = <<>>
    \/ low \in {<<"t","o","t","a","l">>, <<"g","r","a","n","d"," ","t","o","t","a","l">>}
    \/ startswith(low, <<"t","o","t","a","l"," ">>)
    \/ contains(low, <<"s","u","b","t","o","t","a","l">>)
    \/ low \in {<<"u","n","c","a","t","e","g","o","r","i","z","e","d">>, <<"i","n","v","e","n","t","o","r","y">>, <<"p","a","r","t","s">>, <<"o","t","h","e","r"," ","c","h","a","r","g","e","s">>}
    \/ low \in echo

\* C1 as stated: the classifier discards a label exactly when, stripped and
\* lower-cased, it is empty, is total or grand total, starts with "total ", contains
\* subtotal, is a bucket name, or is one of the header-echo tokens item, name,
\* description
C1_ClassifierThreeEchoTokens ==
    (pc = "returned" /\ fn = "classify")
        => (out <=> C1_rule(C1_low, {<<"i","t","e","m">>, <<"n","a","m","e">>, <<"d","e","s","c","r","i","p","t","i","o","n">>}))

\* C1 amended: the same characterisation with the header-echo tokens items, item,
\* name, description; the decision depends only on the stripped, lower-cased label
C1_ClassifierFourEchoTokens ==
    (pc = "returned" /\ fn = "classify")
        => /\ out <=> C1_rule(C1_low, {<<"i","t","e","m","s">>, <<"i","t","e","m">>, <<"n","a","m","e">>, <<"d","e","s","c","r","i","p","t","i","o","n">>})
           /\ out = is_group_or_total_row(C1_low)

\* a label in mixed case with padding that only the token items discards
C1_Witness ==
    /\ pc = "returned" /\ fn = "classify"
    /\ arg = <<" ","I","t","e","m","s"," ">>
    /\ out = TRUE

\* C5: the month normaliser returns the canonical month whose name equals the first
\* three characters of the stripped label in any letter case, and the empty string
\* when there is none; every record the item parser emits under that label has this
\* month, which is one of Jan..Dec, and a label without a month yields no record
C5_MonthNormalised ==
    (pc = "returned" /\ fn = "month3")
        => LET key  == lower(prefix(strip(arg), 3))
               hits == {m \in Months : lower(m) = key}
           IN  /\ hits # {} => out \in hits
               /\ hits = {} => out = <<>>
               /\ \A i \in DOMAIN data : data[i].month \in Months /\ data[i].month = out
               /\ (out = <<>>) <=> (data = <<>>)

\* JAN-2023 is read as Jan and the item row is recorded under Jan
C5_Witness ==
    /\ pc = "returned" /\ fn = "month3"
    /\ arg = <<"J","A","N","-","2","0","2","3">>
    /\ out = Jan
    /\ Len(data) = 1 /\ data[1].month = Jan

\* the characters of a cell with the currency and grouping characters removed
C7_plain == SelectSeq(strip(arg), LAMBDA c : c \notin {"$", ","})

\* a non-empty run of digits
C7_IsDigits(s) == s # <<>> /\ \A i \in DOMAIN s : IsDigit(s[i])

\* C7: the cell parser never fails and returns a number: 0 for a missing, blank, "-"
\* or em-dash cell; the number written, for digits with "$" and "," among them; the
\* negative of the number, for digits in parentheses; 0 for text that is no number
C7_CleanMoney ==
    (pc = "returned" /\ fn = "money")
        => /\ out \in Int
           /\ arg = None => out = 0
           /\ arg # None =>
                /\ strip(arg) \in {<<>>, <<"-">>, <<EmDash>>} => out = 0
                /\ C7_IsDigits(C7_plain) => out = digits_val(C7_plain)
                /\ ( /\ Len(C7_plain) >= 3
                     /\ Head(C7_plain) = "(" /\ C7_plain[Len(C7_plain)] = ")"
                     /\ C7_IsDigits(SubSeq(C7_plain, 2, Len(C7_plain) - 1)) )
                       => out = 0 - digits_val(SubSeq(C7_plain, 2, Len(C7_plain) - 1))
                /\ (\E i \in DOMAIN arg : arg[i] \in {"x", EmDash}) => out = 0

\* "(2)" is read as -2
C7_Witness ==
    /\ pc = "returned" /\ fn = "money"
    /\ arg = <<"(", "2", ")">>
    /\ out = 0 - 2
-----------------------------------------------------------------------------
(* Properties of the loaders, checked on SpecLoad *)

\* the file a record was read from, and the label of its source row as written
SourceFile(rec)  == files[CHOOSE k \in DOMAIN paths : paths[k] = rec.year]
SourceLabel(rec) == SourceFile(rec).rows[rec.row][1]

\* the header cell over the value column a record of a wide export was read from
SourceColumn(rec) == SourceFile(rec).header[rec.col]

\* a cell read as a number, blank and unparseable cells counted as 0
CellNumber(s) == IF py_float(s).ok THEN py_float(s).val ELSE 0

\* a total, grand-total, "Total <name>" or subtotal label
C2_TotalLike(label) ==
    LET low == lower(strip(label))
    IN  \/ low \in {<<"t","o","t","a","l">>, <<"g","r","a","n","d"," ","t","o","t","a","l">>}
        \/ startswith(low, <<"t","o","t","a","l"," ">>)
        \/ contains(low, <<"s","u","b","t","o","t","a","l">>)

\* C2: in the Dataset of every loader, no record with a non-zero measure was read
\* from a row whose label is a total, grand-total, "Total <name>" or subtotal label
C2_NoTotalRowCounted ==
    pc = "loaded"
        => \A n \in DOMAIN data :
               data[n].measure # Num(0) => ~C2_TotalLike(SourceLabel(data[n]))

\* the rows of a wide file that the type and vendor pages keep: not labelled Total
\* in any letter case and, on the vendor page, not blank
C3_kept(f) ==
    {i \in DOMAIN f.rows :
        /\ upper(f.rows[i][1]) # T_TOTAL
        /\ page = "vendor" => strip(f.rows[i][1]) # <<>>}

\* the month columns of a wide file: the value columns whose label begins with a
\* canonical month abbreviation
C3_month_cols(f) == {j \in 2..Len(f.header) : prefix(f.header[j], 3) \in Months}

C4_own_header(f, p) ==
    LET hm == f.header[1]
        left == {q \in 2..Len(hm) : q <= p /\ strip(hm[q]) # <<>>}
    IN  IF Len(f.header[2]) = 1 + (Len(hm) - 1) * 4
        THEN hm[((p - 2) \div 4) + 2]
        ELSE IF left = {} THEN <<>> ELSE hm[Max(left)]

\* the column of month m with the given metric name: the last one under m's header
C4_month_col(f, m, metric) ==
    {p \in 2..Len(f.header[2]) :
        /\ lower(prefix(strip(C4_own_header(f, p)), 3)) = lower(m)
        /\ contains(lower(f.header[2][p]), metric)}

\* the sum over the kept rows and the months of the parsed cells of one metric
C4_item_sum(f, metric) ==
    SumSeq([i \in DOMAIN f.rows |->
              IF is_group_or_total_row(f.rows[i][1]) THEN 0
              ELSE SumSeq([k \in DOMAIN MONTH_ORDER |->
                             LET S == C4_month_col(f, MONTH_ORDER[k], metric)
                             IN  IF S = {} THEN 0 ELSE clean_money(f.rows[i][Max(S)])])])

\* the sum over the kept rows of a vendor export of the parsed cells of the value
\* columns other than the total column
C4_vendor_sum(f) ==
    SumSeq([i \in DOMAIN f.rows |->
              IF upper(f.rows[i][1]) = T_TOTAL \/ strip(f.rows[i][1]) = <<>> THEN 0
              ELSE SumSeq([j \in DOMAIN f.header |->
                             IF j = 1 \/ upper(f.header[j]) = T_TOTAL THEN 0
                             ELSE CellNumber(f.rows[i][j])])])

\* C4: the measure summed over the Dataset equals the parsed cells of the month
\* columns of the kept rows summed over the files, the total column counting as
\* nothing: Sales of the vendor loader, Amount and Qty of the item parser
C4_Conservation ==
    /\ (pc = "loaded" /\ page = "vendor")
         => SumSeq([n \in DOMAIN data |-> data[n].measure.num])
              = SumSeq([k \in DOMAIN files |-> C4_vendor_sum(files[k])])
    /\ (pc = "loaded" /\ page = "item")
         => /\ SumSeq([n \in DOMAIN data |-> data[n].measure.num])
                 = SumSeq([k \in DOMAIN files |-> C4_item_sum(files[k], <<"a","m","o","u","n","t">>)])
            /\ SumSeq([n \in DOMAIN data |-> data[n].qty.num])
                 = SumSeq([k \in DOMAIN files |-> C4_item_sum(files[k], <<"q","t","y">>)])

\* C6: on the wide pages every record of the Dataset has a month in Jan..Dec, and a
\* record read from a column whose label begins with a month name in any letter
\* case has that month
C6_MonthsCanonical ==
    (pc = "loaded" /\ page \in WidePages)
        => \A n \in DOMAIN data :
             /\ data[n].month \in Months
             /\ \A m \in Months :
                  lower(prefix(strip(SourceColumn(data[n])), 3)) = lower(m)
                      => data[n].month = m

\* C8: the measure of every record of the Dataset is a number
C8_MeasureIsNumber ==
    pc = "loaded" => \A n \in DOMAIN data : IsNum(data[n].measure)

\* the metric columns (counted from 0) the parser reads month m's quantity and
\* amount from in file f: the last column assigned to qty_col[m] and to amt_col[m]
C20_used(f, m) ==
    LET cm == col_month(f.header[1], f.header[2])
        q  == qty_col(cm, f.header[2], m)
        a  == amt_col(cm, f.header[2], m)
    IN  (IF q = {} THEN {} ELSE {Max(q)}) \cup (IF a = {} THEN {} ELSE {Max(a)})

\* every column used for a month of file f stands under that month's header cell,
\* none under the TOTAL cell
C20_own_columns(f) ==
    \A m \in Months :
        \A c \in C20_used(f, m) :
            /\ month3(C4_own_header(f, c + 1)) = m
            /\ upper(strip(C4_own_header(f, c + 1))) # T_TOTAL

\* the metric row of file f has four columns for every cell of the month row after
\* the first: the layout the parser maps block by block
C20_blocks_of_4(f) == Len(f.header[2]) = 1 + (Len(f.header[1]) - 1) * 4

\* C20: in every item file the parser has read, in the 4-column block layout and in
\* the carry-forward layout, the quantity and amount columns of every month stand
\* under that month's own header cell and never under the TOTAL cell
C20_TotalBlockUnused ==
    (page = "item" /\ pc = "loaded")
        => \A k \in DOMAIN files : C20_own_columns(files[k])

\* the same for the files in the 4-column block layout
C20_TotalBlockUnusedInBlocks ==
    (page = "item" /\ pc = "loaded")
        => \A k \in DOMAIN files : C20_blocks_of_4(files[k]) => C20_own_columns(files[k])
-----------------------------------------------------------------------------
(* Properties of the derived tables, checked on SpecPage *)

\* the grouping fields of a row of an aggregate table
C9_key(row) == [f \in DOMAIN row \ {"sales"} |-> row[f]]

\* table has exactly one row per combination of the grouping fields present in
\* frame, none for another combination, each with the sum of its records
C9_exact(table, frame, dims) ==
    LET present == {[f \in dims |-> frame[n][f]] : n \in DOMAIN frame}
    IN  /\ \A k \in present : Cardinality({i \in DOMAIN table : C9_key(table[i]) = k}) = 1
        /\ \A i \in DOMAIN table : C9_key(table[i]) \in present
        /\ \A i \in DOMAIN table :
             table[i].sales
                 = sum_skipna(SelectSeq(frame,
                                        LAMBDA r : [f \in dims |-> r[f]] = C9_key(table[i])))

\* C9: every aggregate table of a page has exactly one row per combination of its
\* grouping fields present in the frame it groups (none for an absent combination,
\* none missing), with the sum of the matching records; the per-year table of a
\* two-year Dataset has two rows
C9_Aggregation ==
    pc = "rendered"
        => /\ page = "type" =>
                /\ C9_exact(view.monthly_grouped,
                            isin(of_year(data, ctl.selected_year), view.top_types_year),
                            {"month", "entity"})
                /\ C9_exact(view.year_totals, data, {"year"})
                /\ C9_exact(view.totals_by_year_type, data, {"year", "entity"})
           /\ page = "customer" =>
                /\ C9_exact(view.year_totals_all, data, {"year"})
                /\ C9_exact(view.totals_by_year_customer,
                            isin(data, view.top_customers_overall), {"year", "entity"})
           /\ page = "vendor" =>
                /\ C9_exact(view.year_totals_all, data, {"year"})
                /\ C9_exact(view.totals_by_year_vendor,
                            isin(data, view.top_vendors_overall), {"year", "entity"})
           /\ page = "item" =>
                C9_exact(view.all_year_monthly, data_view, {"year", "month"})

\* list is a Top-N of the per-entity sums of frame: min(N, entities) different
\* entities, in non-increasing order of their sums, none left out with a greater sum
C10_TopN(list, frame, N) ==
    LET ents     == {frame[n].entity : n \in DOMAIN frame}
        total(e) == sum_skipna(SelectSeq(frame, LAMBDA r : r.entity = e))
        chosen   == {list[i] : i \in DOMAIN list}
    IN  /\ Len(list) = IF N < Cardinality(ents) THEN N ELSE Cardinality(ents)
        /\ chosen \subseteq ents
        /\ \A i, j \in DOMAIN list :
             i < j => list[i] # list[j] /\ total(list[i]) >= total(list[j])
        /\ \A e \in ents \ chosen : \A x \in chosen : total(e) <= total(x)

\* C10: the Top-N lists of the pages, for the selected year and over all years,
\* have min(N, entities) entities in non-increasing order of their sums, and no
\* entity left out has a greater sum than a listed one
C10_TopNSelection ==
    pc = "rendered"
        => /\ page = "type" =>
                /\ C10_TopN(view.top_types_year, year_frame, ctl.top_n)
                /\ C10_TopN(view.overall_top_types, overall_frame, ctl.top_n)
           /\ page = "customer" =>
                C10_TopN(view.top_customers_overall, overall_frame, ctl.top_n)
           /\ page = "vendor" =>
                /\ C10_TopN(view.top_vendors_year, year_frame, ctl.top_n)
                /\ C10_TopN(view.top_vendors_overall, overall_frame, ctl.top_n)
           /\ page = "item" =>
                /\ C10_TopN(view.top_items_year, year_frame, ctl.top_n)
                /\ C10_TopN(view.overall_top_items, overall_frame, ctl.top_n)

\* three of four vendors are listed, two of them with equal sums, and the vendor
\* left out has less than every listed one
C10_Witness ==
    /\ pc = "rendered" /\ page = "vendor" /\ ctl.top_n = 3
    /\ ctl.selected_year = "2023"
    /\ view.top_vendors_year = <<T_Dyna, T_Core, T_Bolt>>
    /\ [i \in 1..4 |-> view.vendor_totals_year[i].sales] = <<4, 3, 3, 2>>
    /\ view.vendor_totals_year[4].entity = T_Acme

\* ranked lists its rows with equal sums in the order they have in table, the
\* aggregated table it was sorted from
C12_ties_in_table_order(ranked, table) ==
    LET at(e) == CHOOSE n \in DOMAIN table : table[n].entity = e
    IN  \A i, j \in DOMAIN ranked :
            (i < j /\ ranked[i].sales = ranked[j].sales)
                => at(ranked[i].entity) < at(ranked[j].entity)

\* C12: in the rankings of the customer and vendor pages, for the selected year and
\* over all years, entities with equal totals stand in the order they have in the
\* aggregated table that was sorted, so the earlier one is selected first
C12_StableRanking ==
    pc = "rendered"
        => /\ page = "customer" =>
                /\ C12_ties_in_table_order(view.customer_totals_year, year_totals_table)
                /\ C12_ties_in_table_order(view.overall_customer_totals, overall_totals_table)
           /\ page = "vendor" =>
                /\ C12_ties_in_table_order(view.vendor_totals_year, year_totals_table)
                /\ C12_ties_in_table_order(view.overall_vendor_totals, overall_totals_table)

RECURSIVE C16_reversed(_)
C16_reversed(ss) == IF ss = <<>> THEN <<>> ELSE C16_reversed(Tail(ss)) \o <<Head(ss)>>

\* the Dataset of the run had the loop loaded the files in the opposite order
C16_swapped ==
    IF page \in {"vendor", "customer"} THEN drop_blank_entity(Flatten(C16_reversed(dfs)))
    ELSE Flatten(C16_reversed(dfs))

\* the sets of fields the pages group by
C16_Dims ==
    { {"entity"}, {"year"}, {"year", "entity"}, {"month", "entity"}, {"year", "month"} }

\* the aggregate tables of a Dataset d: the sums by every set of grouping fields, over
\* all years and over the slice of each year
C16_tables(d) ==
    [dims \in C16_Dims, y \in {"all"} \cup {paths[k] : k \in DOMAIN paths} |->
        groupby_sum(IF y = "all" THEN d ELSE of_year(d, y), dims, groupby_observed)]

\* the records of the Dataset read from the file of paths[k]
C16_from_file(k) ==
    IF page \in {"vendor", "customer"} THEN drop_blank_entity(dfs[k]) ELSE dfs[k]

\* C16: the records of the Dataset tagged with year Y are the records read from the
\* file of Y, each from a row of that file with the record's entity as label (and,
\* on the wide pages, the number of the record's cell as value); and the aggregate
\* tables are those of the Dataset concatenated in the opposite order of the files,
\* the tables of the rendered view among them
C16_YearTagAndOrder ==
    pc \in {"loaded", "rendered"}
        => /\ \A k \in DOMAIN paths :
                /\ of_year(data, paths[k]) = C16_from_file(k)
                /\ \A n \in DOMAIN dfs[k] :
                     LET rec == dfs[k][n]
                     IN  /\ rec.year = paths[k]
                         /\ rec.row \in DOMAIN files[k].rows
                         /\ files[k].rows[rec.row][1] = rec.entity
                         /\ (page # "item" /\ py_float(files[k].rows[rec.row][rec.col]).ok)
                              => rec.measure = Num(CellNumber(files[k].rows[rec.row][rec.col]))
           /\ pc = "loaded" => C16_tables(data) = C16_tables(C16_swapped)
           /\ pc = "rendered" =>
                /\ page = "type" =>
                     /\ view.year_totals = groupby_sum(C16_swapped, {"year"}, groupby_observed)
                     /\ view.totals_by_year_type =
                            groupby_sum(C16_swapped, {"year", "entity"}, groupby_observed)
                /\ page \in {"customer", "vendor"} =>
                     view.year_totals_all = groupby_sum(C16_swapped, {"year"}, groupby_observed)
                /\ page = "customer" =>
                     view.customer_totals_year \in
                         sort_desc(groupby_sum(of_year(C16_swapped, ctl.selected_year),
                                               {"entity"}, groupby_observed))

\* a rendered run of two files, both with records, whose Dataset differs from the
\* one concatenated in the opposite order
C16_Witness ==
    /\ pc = "rendered" /\ page = "customer" /\ Len(paths) = 2
    /\ of_year(data, "2023") # <<>> /\ of_year(data, "2024") # <<>>
    /\ C16_swapped # data
    /\ data[1].year = "2023" /\ C16_swapped[1].year = "2024"

\* the overall Top-N list of the rendered page and the table restricted to it
C23_list ==
    CASE page = "type"     -> view.overall_top_types
      [] page = "customer" -> view.top_customers_overall
      [] page = "vendor"   -> view.top_vendors_overall
      [] page = "item"     -> view.overall_top_items

C23_restricted ==
    CASE page = "type"     -> view.comparison_by_type
      [] page = "customer" -> view.totals_by_year_customer
      [] page = "vendor"   -> view.totals_by_year_vendor
      [] page = "item"     -> view.comparison_by_item

\* the sums by year and entity of all records the page works on
C23_unrestricted == groupby_sum(overall_frame, {"year", "entity"}, groupby_observed)

C23_in_list(e) == \E i \in DOMAIN C23_list : C23_list[i] = e

\* C23: on every page the table restricted to the overall Top-N list has only
\* entities of the list, and its rows are the rows of the sums by year and entity
\* whose entity is in the list, in the same order and with the same sums
C23_RestrictedToTopN ==
    pc = "rendered"
        => /\ \A i \in DOMAIN C23_restricted : C23_in_list(C23_restricted[i].entity)
           /\ C23_restricted
                = SelectSeq(C23_unrestricted, LAMBDA row : C23_in_list(row.entity))
           /\ page = "type" => view.totals_by_year_type = C23_unrestricted

\* the customer-type page with top-N 3 and the year 2023 selected: an entity of the
\* overall Top-N that is not in the Top-N of 2023 has its 2023 row in the restricted
\* table, and an entity outside the overall Top-N has none
C23_Witness ==
    /\ pc = "rendered" /\ page = "type"
    /\ ctl.top_n = 3 /\ ctl.selected_year = "2023"
    /\ Len(C23_restricted) < Len(C23_unrestricted)
    /\ \E i \in DOMAIN C23_restricted :
          /\ C23_restricted[i].year = "2023"
          /\ \A j \in DOMAIN view.top_types_year :
                view.top_types_year[j] # C23_restricted[i].entity

\* an item whose stripped upper-cased name starts with LABOR
C24_is_labor(e) == startswith(upper(strip(e)), <<"L","A","B","O","R">>)

\* the records of a frame that are no labor items
C24_no_labor(frame) == SelectSeq(frame, LAMBDA r : ~C24_is_labor(r.entity))

\* no row or name of a table or list of the page is a labor item
C24_free(table) == \A i \in DOMAIN table : ~C24_is_labor(table[i].entity)
C24_free_list(names) == \A i \in DOMAIN names : ~C24_is_labor(names[i])

\* C24: on the item page with exclude-labor on, the selected-year slice, the
\* all-years view, both Top-N lists and the tables made of them have no labor item
\* and are made of all the other records; with it off they are made of all records
C24_ExcludeLabor ==
    (page = "item" /\ pc = "rendered")
        => LET kept == IF ctl.exclude_labor THEN C24_no_labor(data) ELSE data
               year == of_year(kept, ctl.selected_year)
           IN  /\ item_year_df = year /\ data_view = kept
               /\ view.sku_totals \in
                      sort_desc(groupby_sum(year, {"entity"}, groupby_observed))
               /\ view.all_year_monthly
                      = groupby_sum(kept, {"year", "month"}, groupby_observed)
               /\ view.selected_total = sum_skipna(year)
               /\ view.comparison_by_item
                      = SelectSeq(groupby_sum(kept, {"year", "entity"}, groupby_observed),
                                  LAMBDA row : \E i \in DOMAIN view.overall_top_items :
                                                  view.overall_top_items[i] = row.entity)
               /\ ctl.exclude_labor =>
                    /\ C24_free(item_year_df) /\ C24_free(data_view)
                    /\ C24_free(view.sku_totals) /\ C24_free(view.comparison_by_item)
                    /\ C24_free_list(view.top_items_year)
                    /\ C24_free_list(view.overall_top_items)

\* a rendered item page with exclude-labor on whose Dataset has a labor record of
\* the selected year: the table of the year lists the other items only
C24_Witness ==
    /\ page = "item" /\ pc = "rendered" /\ ctl.exclude_labor
    /\ \E n \in DOMAIN data :
          data[n].year = ctl.selected_year /\ C24_is_labor(data[n].entity)
    /\ view.sku_totals # <<>> /\ C24_free(view.sku_totals)
    /\ Len(item_year_df) < Len(of_year(data, ctl.selected_year))

\* the pages that show a total of the selected year as a KPI, and the number shown
C26_pages == {"type", "vendor", "item"}

C26_kpi ==
    CASE page = "type"   -> view.selected_year_total
      [] page = "vendor" -> view.total_year
      [] page = "item"   -> view.selected_total

\* the sum of the measure over the records of the selected year the page works on
\* (on the item page the labor filter is a control of its own); top_n is not read
C26_year_sum ==
    sum_skipna(of_year(IF page = "item" THEN data_view ELSE data, ctl.selected_year))

\* C26: the total of the selected year shown as a KPI is the sum of the measure
\* over all records of that year, so it is the same for every top_n
C26_YearTotal ==
    (pc = "rendered" /\ page \in C26_pages) => C26_kpi = C26_year_sum

\* the same on the vendor and item pages
C26_YearTotalOfVendorAndItem ==
    (pc = "rendered" /\ page \in {"vendor", "item"}) => C26_kpi = C26_year_sum
-----------------------------------------------------------------------------
(* Properties of sessions, checked on SpecSession *)

\* the frame whose per-entity sums a run with Dataset d and controls c ranks: the
\* selected year's records (yearly) or all of them, without labor when excluded
C11_frame(d, c, yearly) ==
    LET base == IF yearly THEN SelectSeq(d, LAMBDA r : r.year = c.selected_year) ELSE d
    IN  IF page = "item" /\ c.exclude_labor
        THEN SelectSeq(base, LAMBDA r : \A p \in labor_prefixes :
                                           ~startswith(upper(strip(r.entity)), p))
        ELSE base

\* the per-entity totals of a frame, one row per entity
C11_totals(frame) == groupby_sum(frame, {"entity"}, groupby_observed)

\* the Top-N list a run shows for the selected year (yearly) or over all years
C11_list(v, yearly) ==
    CASE page = "type"     -> IF yearly THEN v.top_types_year ELSE v.overall_top_types
      [] page = "customer" -> v.top_customers_overall
      [] page = "vendor"   -> IF yearly THEN v.top_vendors_year ELSE v.top_vendors_overall
      [] page = "item"     -> IF yearly THEN v.top_items_year ELSE v.overall_top_items

C11_members(list) == {list[i] : i \in DOMAIN list}

\* C11: when a run follows a run of the same session with the same per-entity
\* totals and a top-N one greater, N being smaller than the number of entities,
\* every entity of the earlier Top-N list is in the later one, for the list of the
\* selected year and the list over all years, also when the totals at the cut-off
\* are equal
C11_TopNMonotone ==
    (pc = "rendered" /\ last # <<>> /\ last.view # <<>>
        /\ ctl.top_n = last.ctl.top_n + 1)
        => \A yearly \in BOOLEAN :
             LET old == C11_totals(C11_frame(last.data, last.ctl, yearly))
                 new == C11_totals(C11_frame(data, ctl, yearly))
             IN  (old = new /\ last.ctl.top_n < Len(old))
                     => C11_members(C11_list(last.view, yearly))
                            \subseteq C11_members(C11_list(view, yearly))

\* the customer page with 7 customers, the last three with equal totals: the run
\* with top-N 5 lists one of the three, the next run with top-N 6 lists it again
C11_Witness ==
    /\ pc = "rendered" /\ page = "customer"
    /\ last # <<>> /\ last.view # <<>>
    /\ last.ctl.top_n = 5 /\ ctl.top_n = 6
    /\ last.data = data
    /\ Len(view.overall_customer_totals) = 7
    /\ view.overall_customer_totals[5].sales = view.overall_customer_totals[7].sales
    /\ Len(last.view.top_customers_overall) = 5
    /\ Len(view.top_customers_overall) = 6
    /\ C11_members(last.view.top_customers_overall)
           \subseteq C11_members(view.top_customers_overall)


\* the years of the records of the Dataset, and the years the selector offers
C17_dataset_years == {data[n].year : n \in DOMAIN data}
C17_offered       == {available_years[i] : i \in DOMAIN available_years}

\* the selector lists its years in the order of YEAR_ORDER, each once
C17_canonical ==
    \A i, j \in DOMAIN available_years :
        i < j => year_index(available_years[i]) < year_index(available_years[j])

\* C17 as stated: on every page the years of the selector are exactly the years of
\* the Dataset, in the order of YEAR_ORDER
C17_ExactlyDatasetYears ==
    pc \in {"loaded", "selected", "rendered", "no_data"}
        => C17_canonical /\ C17_offered = C17_dataset_years

\* C17: the years of the selector are in the order of YEAR_ORDER whatever the order
\* of the paths, and every year of the Dataset is among them; on the type, customer
\* and vendor pages they are exactly the years of the Dataset, on the item page
\* the years whose file exists, with or without records; the selected year is one
\* of them
C17_YearSelector ==
    pc \in {"loaded", "selected", "rendered", "no_data"}
        => /\ C17_canonical
           /\ C17_dataset_years \subseteq C17_offered
           /\ page # "item" => C17_offered = C17_dataset_years
           /\ page = "item" => C17_offered = {paths[k] : k \in DOMAIN paths}
           /\ pc # "loaded" => ctl.selected_year \in C17_offered

\* a customer run whose paths and Dataset have 2024 before 2023 and whose selector
\* lists 2023 before 2024
C17_Witness ==
    /\ page = "customer" /\ pc = "selected"
    /\ paths = <<"2024", "2023">>
    /\ data # <<>> /\ data[1].year = "2024" /\ data[Len(data)].year = "2023"
    /\ available_years = <<"2023", "2024">>
    /\ ctl.selected_year = "2024"

\* the records the loader of the page reshapes from file k as it is now
C19_reshaped(k) ==
    CASE page = "type"     -> load_type_file(wide_file(read_utf8(files[k]).rows), paths[k])
      [] page = "vendor"   -> load_purchases_file(wide_file(read_utf8(files[k]).rows), paths[k])
      [] page = "customer" -> load_customer_file(wide_file(read_csv_safe(files[k]).rows),
                                                 paths[k])
      [] page = "item"     -> parse_qb_sales_by_item_summary(read_rows(files[k]), paths[k]).df

\* the Dataset made of the files as they are now
C19_fresh ==
    LET all == Flatten([k \in DOMAIN paths |-> C19_reshaped(k)])
    IN  IF page \in {"vendor", "customer"} THEN drop_blank_entity(all) ELSE all

\* C19: in every run of a session the Dataset the page works on is the one reshaped
\* from the files as they are when the run loads them, also when the files were
\* replaced since the run before
C19_NeverStale ==
    pc = "loaded" => data = C19_fresh

\* the same on the customer-type page, whose loader is not memoized
C19_TypePageFresh ==
    (pc = "loaded" /\ page = "type") => data = C19_fresh
-----------------------------------------------------------------------------
(* Properties of the loaders on other encodings and shapes, checked on SpecInput *)

\* the text of the bytes s under the first encoding of the list UTF-8, UTF-8 with
\* signature, Windows-1252, Latin-1 that decodes every cell of the file f
C13_text(f, s) ==
    LET rows  == IF page = "item" THEN csv_rows(f) ELSE wide_rows(f)
        ok(k) == decode_rows(ENCODINGS[k], rows).ok
        first == CHOOSE k \in 1..4 : ok(k) /\ \A j \in 1..(k - 1) : ~ok(j)
    IN  decode_cell(ENCODINGS[first], s).text

\* the run has passed the loading of its files without a failure
C13_loads(p) ==
    /\ pc \notin {"crashed", "load_failed"}
    /\ pc = "loaded" =>
         \A n \in DOMAIN data :
             data[n].entity = C13_text(SourceFile(data[n]), SourceLabel(data[n]))

\* a file that can be opened and has a data row that is not a total row
C13_readable(f) ==
    ~unreadable(f) /\ \E i \in DOMAIN f.rows : ~C2_TotalLike(f.rows[i][1])

\* C13: on every page a readable export (with a row to keep) loads whatever
\* its encoding: no run ends in an exception or a load failure, and the entity of
\* every record is its label decoded with the first encoding of the list that
\* decodes the file
C13_EncodingFallback ==
    (\A k \in DOMAIN files : C13_readable(files[k])) => C13_loads(page)

\* the same on the customer and item pages only
C13_FallbackWhereCoded ==
    (page \in {"customer", "item"} /\ \A k \in DOMAIN files : C13_readable(files[k]))
        => C13_loads(page)


\* the item files of the run that end the parser in its error exit: a file that no
\* encoding of the list reads, or one with fewer than the two header rows (the
\* code also counts the two header rows alone, without a data row)
C14_bad_files ==
    {k \in DOMAIN files : unreadable(files[k]) \/ Len(csv_rows(files[k])) < 2}

\* C14: an item page run with a file that no encoding reads, or with fewer than two
\* header rows, ends in the load failure: until the loop reaches the first such
\* file the run is loading, from then on it is stopped with the error shown, and
\* no Dataset, control or table of the page is ever made
C14_ItemLoadFailure ==
    (page = "item" /\ C14_bad_files # {})
        => /\ \/ pc = "load" /\ \A k \in C14_bad_files : Len(dfs) < k
              \/ pc = "load_failed" /\ Len(dfs) + 1 \in C14_bad_files
           /\ data = <<>> /\ ctl = <<>> /\ view = <<>>

\* an item run stopped at its second file, the 2024 file being one header row
C14_Witness ==
    /\ page = "item" /\ pc = "load_failed"
    /\ Len(paths) = 2 /\ Len(dfs) = 1 /\ dfs[1] # <<>>
    /\ ~unreadable(files[2]) /\ Len(csv_rows(files[2])) = 1
    /\ view = <<>>

\* every item file of the run goes through the parser: it can be read and has a
\* data row under its two header rows
C15_parses == \A k \in DOMAIN files : ~unreadable(files[k]) /\ Len(csv_rows(files[k])) >= 3

\* C15: an item page run whose files all parse never ends in an exception or in the
\* load failure, and it renders tables only from a non-empty slice of the selected
\* year: with no record left it ends in the "no data" outcome
C15_NoDataOutcome ==
    (page = "item" /\ C15_parses)
        => /\ pc \notin {"crashed", "load_failed"}
           /\ pc = "rendered" => item_year_df # <<>>

\* the same for the runs in which some file yields a record
C15_NoDataOfSelectedYear ==
    (page = "item" /\ C15_parses
        /\ \E k \in DOMAIN files :
               parse_qb_sales_by_item_summary(read_rows(files[k]), paths[k]).df # <<>>)
        => /\ pc \notin {"crashed", "load_failed"}
           /\ pc = "rendered" => item_year_df # <<>>

\* a customer run of two files holding the same facts, the 2023 file in the wide
\* shape and the 2024 file in the long shape
C18_pair == page = "customer" /\ Len(paths) = 2 /\ pc = "loaded"

\* the sums of the records of year y by customer and month
C18_sums(y) ==
    LET recs == of_year(data, y)
    IN  [key \in {<<recs[n].entity, recs[n].month>> : n \in DOMAIN recs} |->
            SumSeq([n \in DOMAIN recs |->
                       IF <<recs[n].entity, recs[n].month>> = key THEN recs[n].measure.num
                       ELSE 0])]

\* the records of both shapes have a customer, a numeric value and the year of
\* their file, and as many records come from either
C18_same_fields ==
    /\ \A n \in DOMAIN data :
           /\ data[n].entity # NaNLabel /\ IsNum(data[n].measure)
           /\ data[n].year \in {"2023", "2024"}
    /\ Len(of_year(data, "2023")) = Len(of_year(data, "2024"))

\* C18: a wide customer file and a long customer file with the same facts give
\* records with a customer, one of the 12 months, a numeric value and the year, and
\* the same sums by customer and month
C18_SameShape ==
    C18_pair
        => /\ C18_same_fields
           /\ \A n \in DOMAIN data : data[n].month \in Months
           /\ C18_sums("2023") = C18_sums("2024")

\* the same with the month of a record being what the first three characters of the
\* label give, a canonical month or none
C18_SameRecords ==
    C18_pair
        => /\ C18_same_fields
           /\ \A n \in DOMAIN data : data[n].month \in Months \cup {NaNLabel}
           /\ C18_sums("2023") = C18_sums("2024")

\* cell q of the month row and cell c of the metric row of item file f, counted
\* from 0 as the parser counts them
C21_month_cell(f, q) == f.header[1][q + 1]

\* the month the claim assigns to metric column c of file f: in the layout of
\* 4-column blocks the month of cell ((c - 1) div 4) + 1 of the month row, otherwise
\* the month of the last cell among 1..c that is a month, and none before the first
C21_assigned(f, c) ==
    LET cells == Len(f.header[1])
        valid == {q \in 1..c : q < cells /\ month3(C21_month_cell(f, q)) # <<>>}
    IN  IF Len(f.header[2]) = 1 + 4 * (cells - 1)
        THEN month3(C21_month_cell(f, ((c - 1) \div 4) + 1))
        ELSE IF valid = {} THEN <<>> ELSE month3(C21_month_cell(f, Max(valid)))

\* C21: in every item file the parser has read, each metric column c >= 1 has the
\* month of its 4-column block when the metric row has 1 + 4 * (month cells - 1)
\* columns, and otherwise the most recent month among the month cells 1..c; a
\* column with no month is the quantity or amount column of no month
C21_MonthAssignment ==
    (page = "item" /\ pc \in {"loaded", "rendered"})
        => \A k \in DOMAIN files :
             LET f  == files[k]
                 cm == col_month(f.header[1], f.header[2])
             IN  /\ DOMAIN cm = 1..(Len(f.header[2]) - 1)
                 /\ \A c \in DOMAIN cm :
                      /\ cm[c] = C21_assigned(f, c)
                      /\ cm[c] = <<>> =>
                           \A m \in Months : c \notin qty_col(cm, f.header[2], m)
                                                  \cup amt_col(cm, f.header[2], m)

\* a loaded item file in the carry-forward layout whose first two metric columns
\* stand before the first month and have none, the next two having February
C21_Witness ==
    /\ page = "item" /\ pc = "loaded"
    /\ Len(files[1].header[2]) # 1 + 4 * (Len(files[1].header[1]) - 1)
    /\ LET cm == col_month(files[1].header[1], files[1].header[2])
       IN  cm[1] = <<>> /\ cm[2] = <<>> /\ cm[3] = Feb /\ cm[4] = Feb /\ cm[5] = Mar
    /\ \E n \in DOMAIN data : data[n].month = Feb

\* the value the file holds for month m and the given metric in data row r of file
\* f: the parsed cell of the last column with that metric name under m's own header
\* cell, 0 when there is no such column or the row ends before it
C22_value(f, r, m, metric) ==
    LET S == C4_month_col(f, m, metric)
    IN  IF S = {} \/ Max(S) > Len(r) THEN 0 ELSE clean_money(r[Max(S)])

\* the value the parser reads for month m in row r: the cell of qty_col[m] or
\* amt_col[m], 0 when the month has no such column or the row ends before it
C22_read(f, r, m, metric) ==
    LET cm == col_month(f.header[1], f.header[2])
        S  == IF metric = <<"q","t","y">> THEN qty_col(cm, f.header[2], m)
              ELSE amt_col(cm, f.header[2], m)
    IN  IF S = {} \/ Max(S) + 1 > Len(r) THEN 0 ELSE clean_money(r[Max(S) + 1])

\* the records of file k for data row i and month m
C22_records(k, i, m) == {n \in DOMAIN dfs[k] : dfs[k][n].row = i /\ dfs[k][n].month = m}

\* the row is kept: not empty, and its label no grouping or total label
C22_kept(r) == r # <<>> /\ ~is_group_or_total_row(strip(r[1])) /\ upper(strip(r[1])) # T_TOTAL

\* C22: for every data row of an item file and every month the parser emits at most
\* one record, and emits it exactly when the row is kept and the quantity or the
\* amount the file holds for that month is nonzero, a cell beyond the end of a
\* short row counting as 0; the run does not end in an exception
C22_RecordPerNonzeroMonth ==
    (page = "item" /\ C15_parses /\ Len(dfs) = Len(paths))
        => /\ \A k \in DOMAIN files : \A i \in DOMAIN files[k].rows : \A m \in Months :
                LET r == files[k].rows[i]
                    q == C22_value(files[k], r, m, <<"q","t","y">>)
                    a == C22_value(files[k], r, m, <<"a","m","o","u","n","t">>)
                IN  /\ Cardinality(C22_records(k, i, m)) <= 1
                    /\ C22_records(k, i, m) # {} <=> (C22_kept(r) /\ (q # 0 \/ a # 0))
                    /\ \A n \in C22_records(k, i, m) :
                         dfs[k][n].qty = Num(q) /\ dfs[k][n].measure = Num(a)
           /\ (\E k \in DOMAIN dfs : dfs[k] # <<>>) => pc # "crashed"

\* the same with the quantity and the amount being the cells of the columns the
\* parser has assigned to the month
C22_RecordPerNonzeroRead ==
    (page = "item" /\ C15_parses /\ Len(dfs) = Len(paths))
        => /\ \A k \in DOMAIN files : \A i \in DOMAIN files[k].rows : \A m \in Months :
                LET r == files[k].rows[i]
                    q == C22_read(files[k], r, m, <<"q","t","y">>)
                    a == C22_read(files[k], r, m, <<"a","m","o","u","n","t">>)
                IN  /\ Cardinality(C22_records(k, i, m)) <= 1
                    /\ C22_records(k, i, m) # {} <=> (C22_kept(r) /\ (q # 0 \/ a # 0))
                    /\ \A n \in C22_records(k, i, m) :
                         dfs[k][n].qty = Num(q) /\ dfs[k][n].measure = Num(a)
           /\ (\E k \in DOMAIN dfs : dfs[k] # <<>>) => pc # "crashed"
-----------------------------------------------------------------------------
(* Properties of the downloads section, checked on SpecExport *)

\* the run has reached the end of the script with the downloads toggle on
C25_exporting == pc \in {"finished", "crashed"} /\ ctl.enable_downloads

\* C25: on every page a run with the downloads toggle on does not end in an
\* exception: every key a download button reads is in the fig_json map of the run
\* and all buttons are shown, whatever the selected year and the top-N value
C25_ExportNeverFails ==
    C25_exporting
        => /\ pc = "finished"
           /\ \A i \in DOMAIN download_keys(page) : download_keys(page)[i] \in fig_json(page)
           /\ ctl.buttons = Len(download_keys(page))

\* the same on the customer-type and customer pages
C25_ExportOfTypeAndCustomer ==
    (C25_exporting /\ page \in {"type", "customer"})
        => /\ pc = "finished"
           /\ \A i \in DOMAIN download_keys(page) : download_keys(page)[i] \in fig_json(page)
           /\ ctl.buttons = Len(download_keys(page))
=============================================================================
